---- MODULE Spec2Model ----
(***************************************************************************)
(* Model of the template engine of tmc/pe (package internal/template):     *)
(* Template.Process = FileProcessor.Process, then processConditionals at   *)
(* depth 0, then VariableProcessor.Process (escape hiding, ProcessPrompt,  *)
(* escape restoring), and the legacy entry point ProcessPrompt.            *)
(*                                                                         *)
(* A text is a sequence of tokens.  A token is a string: one lexical unit  *)
(* of the template language ("{{", "}}", "#if", a blank, a word, ...).     *)
(* The regular expressions of the source are evaluated on tokens with the  *)
(* character classes of the source: \s is the blank token, [^#] every      *)
(* token that does not hold '#', [^{}] every token but the braces, [^"]    *)
(* every token but the quote, [^\s] every token but the blank.             *)
(***************************************************************************)
EXTENDS Integers, Sequences, FiniteSets, TLC

VARIABLES
    Content,     \* Template.Content
    Variables,   \* Template.Variables: name -> value
    BaseDir,     \* Template.BaseDir
    MaxDepth,    \* Template.MaxDepth (conditional nesting limit)
    api,         \* entry point of the call: "Process" or "ProcessPrompt"
    fs,          \* the file system: resolved path -> content
    writes,      \* number of writes other programs made to the file system
    fp,          \* the template's FileProcessor
    stack,       \* activation records of FileProcessor.Process (top = last)
    pc,          \* position of the call: start, files, conds, vars, done
    text,        \* the text handed from one stage to the next / the result
    err,         \* the error returned, NoErr when there is none
    hist,        \* history of the call (what ran, what was read)
    issues,      \* what Template.Validate returned
    exprArg,     \* EvaluateExpression: the expr argument
    verdict,     \* EvaluateExpression: what it returned (value, error)
    assertion,   \* the Assertion checked / the Assertion a method recorded
    input,       \* the output an assertion is checked against (Assert.Input)
    checked,     \* the AssertionResult returned / appended to Assert.Results
    args,        \* the arguments of the last call of package assertutil
    Results,     \* Assert.Results / the results CheckAll returned
    calls,       \* the calls made on the Assert object: method, args, return
    providers,   \* Registry.providers: lower-case name -> provider
    factories,   \* Registry.factories, in the order of registration
    goroutines,  \* the position of each goroutine calling the Registry
    creates,     \* history: the calls of ProviderFactory.Create
    returns      \* history: what each call of GetProvider returned

\* the state of a direct call of EvaluateExpression
evars == <<exprArg, verdict>>
\* the state of a call of package assertutil
avars == <<assertion, input, checked, args, Results, calls>>
\* the state of a Registry and of the goroutines using it
rvars == <<providers, factories, goroutines, creates, returns>>

vars == <<Content, Variables, BaseDir, MaxDepth, api, fs, writes, fp, stack,
          pc, text, err, hist, issues, evars, avars, rvars>>

-----------------------------------------------------------------------------
(* Bounds of the model *)

\* number of items a generated template is made of
MaxSegs == 2
\* deepest chain of nested conditional blocks a generated template holds
MaxChain == 11
\* number of files of the inclusion chain c1 -> c2 -> ... in the file system
MaxFileChain == 11
\* number of writes other programs make to the file system during a call
MaxWrites == 1
\* number of tokens of a generated expression
MaxExprLen == 4
\* number of characters of a generated output
MaxOutLen == 3
\* number of characters of a generated string value of an assertion
MaxPatLen == 2
\* number of characters of a generated length comparison
MaxCmpLen == 4
\* number of calls made on one Assert object
MaxCalls == 2
\* number of assertions of a list given to CheckAll
MaxList == 2

(* Program constants *)

\* NewTemplate: MaxDepth: 10
DefaultMaxDepth == 10
\* NewFileProcessor: MaxDepth: 10
DefaultFileMaxDepth == 10

-----------------------------------------------------------------------------
(* Tokens *)

LB == "{{"
RB == "}}"
BS == "\\"
SP == " "
QUOTE == "\""
HIF == "#if"
WTHEN == "then"
HELSE == "#else"
HENDIF == "#endif"
HINCLUDE == "#include"
WFILE == "file"
EQ == "=="
NE == "!="
ERRFILE == "ERROR_READING_FILE:"
ERRCOND == "ERROR_EVALUATING_CONDITION:"
ERRNEST == "ERROR_PROCESSING_NESTED_CONDITIONAL:"
\* the token read past either end of a text
EOT == ""

\* the tokens that hold the character '#'
HashToks == {HIF, HELSE, HENDIF, HINCLUDE}
\* the words that start with "else" / with "endif"
ElseWords == {"else", "elsewhere"}
EndifWords == {"endif"}
\* the path words that start with '/'
AbsWords == {"/g"}

-----------------------------------------------------------------------------
(* Sequences of tokens *)

Min(S) == CHOOSE m \in S : \A n \in S : m <= n

At(s, i) == IF i \in 1..Len(s) THEN s[i] ELSE EOT

From(s, i) == SubSeq(s, i, Len(s))

\* the first index >= i of s that holds tok, 0 when there is none
NextTok(s, i, tok) ==
    LET hits == {j \in i..Len(s) : s[j] = tok}
    IN  IF hits = {} THEN 0 ELSE Min(hits)

\* the number of blanks of s from index i on (\s* read greedily)
SpRun(s, i) ==
    LET others == {j \in i..Len(s) : s[j] # SP}
    IN  IF i > Len(s) THEN 0
        ELSE IF others = {} THEN Len(s) - i + 1 ELSE Min(others) - i

HasTok(s, tok) == \E i \in 1..Len(s) : s[i] = tok

\* strings.TrimSpace
TrimSpace(s) ==
    LET keep == {j \in 1..Len(s) : s[j] # SP}
    IN  IF keep = {} THEN <<>>
        ELSE SubSeq(s, Min(keep), CHOOSE m \in keep : \A n \in keep : n <= m)

\* whether old starts at index i of s
StartsAt(s, i, old) ==
    /\ i + Len(old) - 1 <= Len(s)
    /\ \A k \in 1..Len(old) : s[i + k - 1] = old[k]

\* strings.ReplaceAll(s, old, new) for a non-empty old: the matches are taken
\* from left to right and do not overlap
RECURSIVE ReplaceAll(_, _, _)
ReplaceAll(s, old, new) ==
    LET hits == {i \in 1..Len(s) : StartsAt(s, i, old)}
    IN  IF hits = {} THEN s
        ELSE LET i == Min(hits)
             IN  SubSeq(s, 1, i - 1) \o new
                   \o ReplaceAll(From(s, i + Len(old)), old, new)

RECURSIVE Flatten(_)
Flatten(ss) == IF ss = <<>> THEN <<>> ELSE Head(ss) \o Flatten(Tail(ss))

-----------------------------------------------------------------------------
(* Errors *)

NoErr == [kind |-> "none", detail |-> <<>>]
Err(kind, detail) == [kind |-> kind, detail |-> detail]

-----------------------------------------------------------------------------
(* Values of variables *)

StrVal(x) == [t |-> "string", s |-> x, b |-> FALSE, n |-> 0]
BoolVal(x) == [t |-> "bool", s |-> <<>>, b |-> x, n |-> 0]
IntVal(x) == [t |-> "int", s |-> <<>>, b |-> FALSE, n |-> x]
\* a float64 that is x halves (0, 0.5, 1, 1.5, ...)
FloatVal(x) == [t |-> "float", s |-> <<>>, b |-> FALSE, n |-> x]
\* a value of another type: an empty slice
SliceVal == [t |-> "slice", s |-> <<>>, b |-> FALSE, n |-> 0]

\* fmt.Sprintf("%v", v)
Sprint(v) ==
    CASE v.t = "string" -> v.s
      [] v.t = "bool" -> IF v.b THEN <<"true">> ELSE <<"false">>
      [] v.t = "int" -> <<ToString(v.n)>>
      [] v.t = "float" ->
            IF v.n % 2 = 0 THEN <<ToString(v.n \div 2)>>
            ELSE <<ToString(v.n \div 2) \o ".5">>
      [] OTHER -> <<"[]">>

\* _, exists := vars[name] for a name given as text
Exists(V, name) == Len(name) = 1 /\ name[1] \in DOMAIN V

-----------------------------------------------------------------------------
(* The inputs of a call *)

\* the variable set of the calls
Vars1 ==
    [name \in {"a", "yes", "no"} |->
        CASE name = "a" -> StrVal(<<"A">>)
          [] name = "yes" -> BoolVal(TRUE)
          [] OTHER -> BoolVal(FALSE)]

\* a variable set in which the value of a is the text {{yes}}
Vars2 ==
    [name \in {"a", "yes", "no"} |->
        CASE name = "a" -> StrVal(<<LB, "yes", RB>>)
          [] name = "yes" -> BoolVal(TRUE)
          [] OTHER -> BoolVal(FALSE)]

VarSets == {Vars1, Vars2}

Base == "base/"

Include(path) == <<HINCLUDE, SP, QUOTE>> \o path \o <<QUOTE>>
LegacyInclude(path) == <<LB, WFILE, SP, QUOTE>> \o path \o <<QUOTE, RB>>
Ref(name) == <<LB>> \o name \o <<RB>>
IfThen(cond, body) ==
    <<HIF, SP>> \o cond \o <<SP, WTHEN, SP>> \o body \o <<HENDIF>>
IfThenElse(cond, body, other) ==
    <<HIF, SP>> \o cond \o <<SP, WTHEN, SP>> \o body \o <<HELSE, SP>>
      \o other \o <<HENDIF>>

ChainFile(i) == "c" \o ToString(i)

\* The files: f.txt refers to a variable, /g is plain text, c1 includes c2
\* which includes c3 ... up to the last one, self includes itself, nest
\* includes a file that does not exist, and the file whose name is a blank
\* followed by "loop" includes itself
Files ==
    LET names == {<<Base, "f.txt">>, <<"/g">>, <<Base, "self">>, <<Base, "nest">>,
                  <<Base, SP, "loop">>}
                   \cup {<<Base, ChainFile(i)>> : i \in 1..MaxFileChain}
    IN  [p \in names |->
            CASE p = <<Base, "f.txt">> -> Ref(<<"a">>)
              [] p = <<"/g">> -> <<"G">>
              [] p = <<Base, "self">> -> Include(<<"self">>)
              [] p = <<Base, SP, "loop">> -> Include(<<SP, "loop">>)
              [] p = <<Base, "nest">> -> <<"n">> \o Include(<<"m">>)
              [] OTHER ->
                  LET i == CHOOSE i \in 1..MaxFileChain : p = <<Base, ChainFile(i)>>
                  IN  IF i = MaxFileChain THEN <<"end">>
                      ELSE Include(<<ChainFile(i + 1)>>)]

\* the files other programs write during a call
Writable == {<<Base, "f.txt">>, <<"/g">>}

\* the pieces generated templates are made of
Items ==
    { <<"x">>, <<SP>>,
      Ref(<<"a">>), Ref(<<"b">>), Ref(<<SP, "a", SP>>), Ref(<<"elsewhere">>),
      <<BS>> \o Ref(<<"b">>), <<BS>> \o LegacyInclude(<<"/g">>),
      Include(<<"f.txt">>), LegacyInclude(<<"/g">>),
      Include(<<"m">>), Include(<<SP, "m">>),
      Include(<<"self">>), Include(<<"nest">>),
      Include(<<ChainFile(MaxFileChain - DefaultFileMaxDepth)>>),
      Include(<<ChainFile(MaxFileChain - DefaultFileMaxDepth + 1)>>),
      IfThen(<<"yes">>, <<"x", SP>>),
      IfThen(<<"no">>, Ref(<<"b">>) \o <<SP>>),
      IfThenElse(<<"yes">>, Ref(<<"a">>) \o <<SP>>, Ref(<<"b">>) \o <<SP>>),
      IfThenElse(<<"no">>, Ref(<<"b">>) \o <<SP>>, <<"y", SP>>) }

RECURSIVE ItemSeqs(_)
ItemSeqs(n) ==
    IF n = 0 THEN {<<>>}
    ELSE ItemSeqs(n - 1)
           \cup {ss \o <<it>> : ss \in ItemSeqs(n - 1), it \in Items}

ItemTemplates == {Flatten(ss) : ss \in ItemSeqs(MaxSegs)}

\* n conditional blocks with a true condition, each in the body of the other
RECURSIVE Chain(_)
Chain(n) ==
    IF n = 0 THEN <<"x">>
    ELSE IfThen(<<"yes">>, Chain(n - 1) \o <<SP>>)

ChainTemplates == {Chain(n) : n \in 2..MaxChain}

\* templates of particular shapes: a reference to a variable whose value may
\* hold a reference, a file that includes itself, text that reads like the
\* placeholder of an escaped span, inclusions of missing files in both
\* syntaxes, repeated references to missing variables, text that reads like
\* the placeholder of a failed inclusion or of a failed condition
CaseTemplates ==
    { Ref(<<"a">>),
      Ref(<<"a">>) \o <<SP>> \o Ref(<<"yes">>),
      Include(<<SP, "loop">>),
      <<"__ESCAPED_VAR_0__", SP, BS>> \o Ref(<<"b">>),
      <<BS>> \o Ref(<<"b">>) \o <<SP, BS>> \o Ref(<<"a">>),
      Include(<<"m">>) \o LegacyInclude(<<"n">>),
      LegacyInclude(<<"n">>) \o Include(<<"m">>) \o LegacyInclude(<<"n">>),
      Include(<<"m">>) \o Include(<<"f.txt">>) \o Include(<<"m">>),
      Ref(<<"c">>) \o Ref(<<"b">>) \o Ref(<<"c">>) \o Include(<<"m">>),
      <<ERRFILE, "x">>,
      <<ERRCOND, "x">>,
      <<"x", SP, ERRNEST, "x">> }

-----------------------------------------------------------------------------
(* FileProcessor *)

NoMatch == [found |-> FALSE, start |-> 0, end |-> 0, path |-> <<>>]

\* The match at index i of s, if there is one, of
\*   phase 1: legacyRe  = {{file\s+"([^"]+)"}}
\*   phase 2: includeRe = #include\s+"([^"]+)"
\* "path" is the submatch.
DirectiveAt(phase, s, i) ==
    LET k  == IF phase = 1 THEN i + 2 ELSE i + 1
        q1 == k + SpRun(s, k)
        q2 == NextTok(s, q1 + 1, QUOTE)
        e  == IF phase = 1 THEN q2 + 1 ELSE q2
        ok == /\ IF phase = 1
                   THEN At(s, i) = LB /\ At(s, i + 1) = WFILE
                   ELSE At(s, i) = HINCLUDE
              /\ SpRun(s, k) >= 1
              /\ At(s, q1) = QUOTE
              /\ q2 > q1 + 1
              /\ phase = 1 => At(s, q2 + 1) = RB
    IN  IF ok THEN [found |-> TRUE, start |-> i, end |-> e,
                    path |-> SubSeq(s, q1 + 1, q2 - 1)]
        ELSE NoMatch

\* The leftmost match of the phase's expression in s
FindDirective(phase, s) ==
    LET hits == {i \in 1..Len(s) : DirectiveAt(phase, s, i).found}
    IN  IF hits = {} THEN NoMatch ELSE DirectiveAt(phase, s, Min(hits))

\* filepath.IsAbs
IsAbs(path) == At(path, 1) \in AbsWords

\* includeFile: if !filepath.IsAbs(filePath) { filePath = Join(BaseDir, filePath) }
Resolve(base, path) == IF IsAbs(path) THEN path ELSE <<base>> \o path

\* The submatch of the leftmost match of  marker([^\s]+)  in s, <<>> when the
\* expression matches nowhere
MarkerWord(s, marker) ==
    LET hits == {i \in 1..Len(s) : s[i] = marker /\ At(s, i + 1) \notin {SP, EOT}}
    IN  IF hits = {} THEN <<>>
        ELSE LET i == Min(hits)
                 stop == NextTok(s, i + 1, SP)
             IN  SubSeq(s, i + 1, IF stop = 0 THEN Len(s) ELSE stop - 1)

\* FileProcessor.Process, after both replacements: the check for error
\* placeholders and the return
FileResult(processed) ==
    IF HasTok(processed, ERRFILE) /\ MarkerWord(processed, ERRFILE) # <<>>
    THEN [text |-> <<>>, err |-> Err("read", MarkerWord(processed, ERRFILE))]
    ELSE [text |-> processed, err |-> NoErr]

\* the callback's replacement for an inclusion that failed
ErrorPlaceholder(path) == <<ERRFILE>> \o path

\* the processedFiles map with key set to value
CachePut(cache, key, value) ==
    [k \in DOMAIN cache \cup {key} |-> IF k = key THEN value ELSE cache[k]]

Frame(phase, out, rest, lit, key) ==
    [phase |-> phase, out |-> out, rest |-> rest, lit |-> lit, key |-> key]

Top == stack[Len(stack)]
Below == SubSeq(stack, 1, Len(stack) - 1)
TopMatch == FindDirective(Top.phase, Top.rest)
\* the text of the top activation before / after the current match
Before == SubSeq(Top.rest, 1, TopMatch.start - 1)
After == From(Top.rest, TopMatch.end + 1)

\* the top activation once the current match is replaced by repl
Replaced(repl) ==
    Below \o <<[Top EXCEPT !.out = Top.out \o Before \o repl, !.rest = After]>>

\* NextStage with the "if err != nil { return }" of the stages left out
NextStageNoAbort(stage, e) ==
    CASE stage = "start" -> "files"
      [] stage = "files" -> "conds"
      [] stage = "conds" -> "vars"
      [] OTHER -> "done"

\* Template.Process: the order of the stages.  A stage that fails ends the call.
NextStage(stage, e) ==
    IF e # NoErr THEN "done"
    ELSE CASE stage = "start" -> "files"
           [] stage = "files" -> "conds"
           [] stage = "conds" -> "vars"
           [] OTHER -> "done"

\* Template.Process calls t.fileProcessor.Process(t.Content)
StartProcess ==
    /\ pc = "start" /\ api = "Process"
    /\ pc' = NextStage("start", NoErr)
    /\ stack' = <<Frame(1, <<>>, Content, <<>>, <<>>)>>
    /\ hist' = [hist EXCEPT !.stages = Append(@, "files")]
    /\ UNCHANGED <<rvars, issues, evars, avars,
                   Content, Variables, BaseDir, MaxDepth, api, fs, writes, fp,
                   text, err>>

\* includeFile: if p.currentDepth >= p.MaxDepth -> error, placeholder
IncludeDepthExceeded ==
    /\ pc = "files" /\ TopMatch.found
    /\ fp.currentDepth >= fp.MaxDepth
    /\ stack' = Replaced(ErrorPlaceholder(TopMatch.path))
    /\ hist' = [hist EXCEPT !.depthHit = TRUE]
    /\ UNCHANGED <<rvars, issues, evars, avars,
                   Content, Variables, BaseDir, MaxDepth, api, fs, writes, fp,
                   pc, text, err>>

\* includeFile: the path is in processedFiles
IncludeCached ==
    /\ pc = "files" /\ TopMatch.found
    /\ fp.currentDepth < fp.MaxDepth
    /\ TopMatch.path \in DOMAIN fp.processedFiles
    /\ stack' = Replaced(fp.processedFiles[TopMatch.path])
    /\ hist' = [hist EXCEPT !.included = @ \cup {TopMatch.path}]
    /\ UNCHANGED <<rvars, issues, evars, avars,
                   Content, Variables, BaseDir, MaxDepth, api, fs, writes, fp,
                   pc, text, err>>

\* includeFile: os.ReadFile fails
IncludeReadError ==
    /\ pc = "files" /\ TopMatch.found
    /\ fp.currentDepth < fp.MaxDepth
    /\ TopMatch.path \notin DOMAIN fp.processedFiles
    /\ Resolve(fp.BaseDir, TopMatch.path) \notin DOMAIN fs
    /\ stack' = Replaced(ErrorPlaceholder(TopMatch.path))
    /\ hist' = [hist EXCEPT !.unreadable = @ \cup {TopMatch.path}]
    /\ UNCHANGED <<rvars, issues, evars, avars,
                   Content, Variables, BaseDir, MaxDepth, api, fs, writes, fp,
                   pc, text, err>>

\* includeFile: os.ReadFile succeeds; p.currentDepth++; p.Process(content)
IncludeEnter ==
    /\ pc = "files" /\ TopMatch.found
    /\ fp.currentDepth < fp.MaxDepth
    /\ TopMatch.path \notin DOMAIN fp.processedFiles
    /\ LET key == Resolve(fp.BaseDir, TopMatch.path)
       IN  /\ key \in DOMAIN fs
           /\ stack' = Below
                  \o <<[Top EXCEPT !.out = Top.out \o Before, !.rest = After],
                       Frame(1, <<>>, fs[key], TopMatch.path, key)>>
    /\ fp' = [fp EXCEPT !.currentDepth = @ + 1]
    /\ hist' = [hist EXCEPT
                  !.reads = Append(@, TopMatch.path),
                  !.reread = @ \cup ({TopMatch.path} \cap hist.included)]
    /\ UNCHANGED <<rvars, issues, evars, avars,
                   Content, Variables, BaseDir, MaxDepth, api, fs, writes,
                   pc, text, err>>

\* FileProcessor.Process: the legacy directives are done, the #include
\* directives of the result follow
PhaseAdvance ==
    /\ pc = "files" /\ ~TopMatch.found /\ Top.phase = 1
    /\ stack' = Below \o <<[Top EXCEPT !.phase = 2, !.out = <<>>,
                                     !.rest = Top.out \o Top.rest]>>
    /\ UNCHANGED <<rvars, issues, evars, avars,
                   Content, Variables, BaseDir, MaxDepth, api, fs, writes, fp,
                   pc, text, err, hist>>

\* IncludeReturn with the p.currentDepth-- after the error return
IncludeReturnKeepsDepthOnError ==
    /\ pc = "files" /\ ~TopMatch.found /\ Top.phase = 2
    /\ Len(stack) > 1
    /\ LET res    == FileResult(Top.out \o Top.rest)
           caller == stack[Len(stack) - 1]
           repl   == IF res.err # NoErr THEN ErrorPlaceholder(Top.lit)
                     ELSE res.text
       IN  /\ stack' = SubSeq(stack, 1, Len(stack) - 2)
                  \o <<[caller EXCEPT !.out = caller.out \o repl]>>
           /\ fp' = [fp EXCEPT
                  !.currentDepth = IF res.err # NoErr THEN @ ELSE @ - 1,
                  !.processedFiles =
                      IF res.err # NoErr THEN @
                      ELSE CachePut(@, Top.key, res.text)]
           /\ hist' = [hist EXCEPT
                  !.included = IF res.err # NoErr THEN @
                               ELSE @ \cup {Top.lit}]
    /\ UNCHANGED <<rvars, issues, evars, avars,
                   Content, Variables, BaseDir, MaxDepth, api, fs, writes,
                   pc, text, err>>

\* The nested p.Process(content) returns to includeFile: p.currentDepth--,
\* then the error is returned or the result is cached and returned; the
\* callback of the caller puts the placeholder or the content
IncludeReturn ==
    /\ pc = "files" /\ ~TopMatch.found /\ Top.phase = 2
    /\ Len(stack) > 1
    /\ LET res    == FileResult(Top.out \o Top.rest)
           caller == stack[Len(stack) - 1]
           repl   == IF res.err # NoErr THEN ErrorPlaceholder(Top.lit)
                     ELSE res.text
       IN  /\ stack' = SubSeq(stack, 1, Len(stack) - 2)
                  \o <<[caller EXCEPT !.out = caller.out \o repl]>>
           /\ fp' = [fp EXCEPT
                  !.currentDepth = @ - 1,
                  !.processedFiles =
                      IF res.err # NoErr THEN @
                      ELSE CachePut(@, Top.key, res.text)]
           /\ hist' = [hist EXCEPT
                  !.included = IF res.err # NoErr THEN @
                               ELSE @ \cup {Top.lit}]
    /\ UNCHANGED <<rvars, issues, evars, avars,
                   Content, Variables, BaseDir, MaxDepth, api, fs, writes,
                   pc, text, err>>

\* t.fileProcessor.Process(t.Content) returns to Template.Process
FilesReturn ==
    /\ pc = "files" /\ ~TopMatch.found /\ Top.phase = 2
    /\ Len(stack) = 1
    /\ LET res == FileResult(Top.out \o Top.rest)
       IN  /\ err' = res.err
           /\ text' = res.text
           /\ pc' = NextStage("files", res.err)
           /\ hist' = [hist EXCEPT !.fileOut = res.text, !.fileErr = res.err]
    /\ stack' = <<>>
    /\ UNCHANGED <<rvars, issues, evars, avars,
                   Content, Variables, BaseDir, MaxDepth, api, fs, writes, fp>>

\* Another program writes a file while the inclusions are resolved
WriteFile ==
    /\ pc = "files" /\ writes < MaxWrites
    /\ \E p \in Writable :
          /\ fs[p] # <<"w">>
          /\ fs' = [fs EXCEPT ![p] = <<"w">>]
    /\ writes' = writes + 1
    /\ UNCHANGED <<rvars, issues, evars, avars,
                   Content, Variables, BaseDir, MaxDepth, api, fp, stack,
                   pc, text, err, hist>>

-----------------------------------------------------------------------------
(* EvaluateExpression *)

\* strings.Trim(s, "\"")
TrimQuotes(s) ==
    LET keep == {j \in 1..Len(s) : s[j] # QUOTE}
    IN  IF keep = {} THEN <<>>
        ELSE SubSeq(s, Min(keep), CHOOSE m \in keep : \A n \in keep : n <= m)

\* the right side of a comparison: a quoted literal, a variable, a literal
RightSide(V, right) ==
    IF Len(right) >= 1 /\ right[1] = QUOTE /\ right[Len(right)] = QUOTE
    THEN TrimQuotes(right)
    ELSE IF Exists(V, right) THEN Sprint(V[right[1]])
    ELSE right

\* Truthy with the strings "0" and "false" taken as false
TruthyWordsFalse(v) ==
    CASE v.t = "bool" -> v.b
      [] v.t = "string" -> v.s \notin {<<>>, <<"0">>, <<"false">>}
      [] v.t \in {"int", "float"} -> Sprint(v) # <<"0">>
      [] OTHER -> TRUE

\* the truth check of a variable that exists
Truthy(v) ==
    CASE v.t = "bool" -> v.b
      [] v.t = "string" -> v.s # <<>>
      [] v.t \in {"int", "float"} -> Sprint(v) # <<"0">>
      [] OTHER -> TRUE

\* EvaluateExpression with the inequality looked for before the equality
EvaluateExpressionNeFirst(e, V) ==
    LET op    == IF HasTok(e, NE) THEN NE ELSE EQ
        i     == NextTok(e, 1, op)
        left  == TrimSpace(SubSeq(e, 1, i - 1))
        right == TrimSpace(From(e, i + 1))
    IN  IF HasTok(e, NE)
        THEN (IF ~Exists(V, left) THEN TRUE
              ELSE Sprint(V[left[1]]) # RightSide(V, right))
        ELSE IF HasTok(e, EQ)
        THEN (IF ~Exists(V, left) THEN FALSE
              ELSE Sprint(V[left[1]]) = RightSide(V, right))
        ELSE IF Exists(V, TrimSpace(e)) THEN Truthy(V[TrimSpace(e)[1]])
        ELSE FALSE

\* strings.SplitN(s, sep, 2) for an s that holds sep
SplitN(s, sep) ==
    <<SubSeq(s, 1, NextTok(s, 1, sep) - 1), From(s, NextTok(s, 1, sep) + 1)>>

\* the error EvaluateExpression returns with its value
EvaluateError(e) ==
    IF HasTok(e, EQ)
    THEN (IF Len(SplitN(e, EQ)) # 2 THEN Err("equality", e) ELSE NoErr)
    ELSE IF HasTok(e, NE)
    THEN (IF Len(SplitN(e, NE)) # 2 THEN Err("inequality", e) ELSE NoErr)
    ELSE NoErr

\* EvaluateExpression with an inequality false when the left variable is absent
EvaluateExpressionAbsentFalse(expr, V) ==
    IF HasTok(expr, EQ)
    THEN LET i     == NextTok(expr, 1, EQ)
             left  == TrimSpace(SubSeq(expr, 1, i - 1))
             right == TrimSpace(From(expr, i + 1))
         IN  IF ~Exists(V, left) THEN FALSE
             ELSE Sprint(V[left[1]]) = RightSide(V, right)
    ELSE IF HasTok(expr, NE)
    THEN LET i     == NextTok(expr, 1, NE)
             left  == TrimSpace(SubSeq(expr, 1, i - 1))
             right == TrimSpace(From(expr, i + 1))
         IN  IF ~Exists(V, left) THEN FALSE
             ELSE Sprint(V[left[1]]) # RightSide(V, right)
    ELSE LET name == TrimSpace(expr)
         IN  IF Exists(V, name) THEN Truthy(V[name[1]]) ELSE FALSE

\* EvaluateExpression(expr, vars): the value returned
EvaluateExpression(expr, V) ==
    IF HasTok(expr, EQ)
    THEN LET i     == NextTok(expr, 1, EQ)
             left  == TrimSpace(SubSeq(expr, 1, i - 1))
             right == TrimSpace(From(expr, i + 1))
         IN  IF ~Exists(V, left) THEN FALSE
             ELSE Sprint(V[left[1]]) = RightSide(V, right)
    ELSE IF HasTok(expr, NE)
    THEN LET i     == NextTok(expr, 1, NE)
             left  == TrimSpace(SubSeq(expr, 1, i - 1))
             right == TrimSpace(From(expr, i + 1))
         IN  IF ~Exists(V, left) THEN TRUE
             ELSE Sprint(V[left[1]]) # RightSide(V, right)
    ELSE LET name == TrimSpace(expr)
         IN  IF Exists(V, name) THEN Truthy(V[name[1]]) ELSE FALSE

-----------------------------------------------------------------------------
(* Template.processConditionals *)

NoBlock == [found |-> FALSE, start |-> 0, end |-> 0, cond |-> <<>>,
            thenBody |-> <<>>, elseBody |-> <<>>]

\* The parts of the expression
\*   #if\s+([^#]+?)\s+then\s+((?:.|\n)*?)(?:#else\s+((?:.|\n)*?))?#endif
\* matched at index i of s, with the submatches the leftmost-first rule of
\* package regexp selects: the shortest condition, then the shortest
\* then-body, the #else part taken when it can be, then the shortest else-body.

\* #if\s+ : where the condition starts when \s+ takes every blank
CondStart(s, i) == i + 1 + SpRun(s, i + 1)

\* ([^#]+?)\s+then\s+ : the indexes of a "then" that may end a condition
\* starting at p, the rest of the expression being matched after it
ThenSet(s, p) ==
    {t \in (p + 1)..Len(s) :
        /\ s[t] = WTHEN /\ s[t - 1] = SP /\ At(s, t + 1) = SP
        /\ \A j \in p..(t - 1) : s[j] \notin HashToks
        /\ NextTok(s, t + 1, HENDIF) # 0}

\* #if\s+ gives blanks back to the condition, which is then blank
BlankCond(s, i) ==
    /\ SpRun(s, i + 1) >= 3
    /\ At(s, CondStart(s, i)) = WTHEN
    /\ At(s, CondStart(s, i) + 1) = SP
    /\ NextTok(s, CondStart(s, i) + 1, HENDIF) # 0

\* the index of the "then" of the match
ThenIndex(s, i) ==
    IF ThenSet(s, CondStart(s, i)) # {} THEN Min(ThenSet(s, CondStart(s, i)))
    ELSE CondStart(s, i)

\* ((?:.|\n)*?) : the first index from j on where the then-body can end, at
\* an #else\s+ that an #endif follows, or at an #endif
BodyEnd(s, j) ==
    Min({k \in j..Len(s) :
            \/ s[k] = HENDIF
            \/ /\ s[k] = HELSE /\ At(s, k + 1) = SP
               /\ NextTok(s, k + 1, HENDIF) # 0})

\* the match whose then-body is s[j..k-1]
BlockParts(s, i, cond, j, k) ==
    [found |-> TRUE, start |-> i, cond |-> cond,
     thenBody |-> SubSeq(s, j, k - 1),
     end |-> IF s[k] = HENDIF THEN k ELSE NextTok(s, k + 1, HENDIF),
     elseBody |-> IF s[k] = HENDIF THEN <<>>
                  ELSE SubSeq(s, k + 1 + SpRun(s, k + 1),
                              NextTok(s, k + 1, HENDIF) - 1)]

\* the match whose "then" is at index t
BlockWithThen(s, i, t) ==
    BlockParts(s, i, TrimSpace(SubSeq(s, CondStart(s, i), t - 1)),
               t + 1 + SpRun(s, t + 1),
               BodyEnd(s, t + 1 + SpRun(s, t + 1)))

\* The match of the expression at index i of s, if there is one
BlockAt(s, i) ==
    IF \/ At(s, i) # HIF
       \/ SpRun(s, i + 1) < 1
       \/ ThenSet(s, CondStart(s, i)) = {} /\ ~BlankCond(s, i)
    THEN NoBlock
    ELSE BlockWithThen(s, i, ThenIndex(s, i))

\* The leftmost match of the expression in s
FindBlock(s) ==
    LET hits == {i \in 1..Len(s) : BlockAt(s, i).found}
    IN  IF hits = {} THEN NoBlock ELSE BlockAt(s, Min(hits))

\* err.Error() as text
ErrorText(e) == <<e.kind>> \o e.detail

\* processConditionals, after the replacement: the checks for error
\* placeholders and the return
CondResult(result) ==
    LET nested == {i \in 1..Len(result) : result[i] = ERRNEST /\ i < Len(result)}
    IN  IF HasTok(result, ERRCOND) /\ MarkerWord(result, ERRCOND) # <<>>
        THEN [text |-> <<>>, err |-> Err("condition", MarkerWord(result, ERRCOND))]
        ELSE IF nested # {}
        THEN [text |-> <<>>, err |-> Err("nested", From(result, Min(nested) + 1))]
        ELSE [text |-> result, err |-> NoErr]

\* The callback of processConditionals for the block m, given the outcome
\* of processConditionals(selectedContent, depth+1)
BlockReplacement(processed) ==
    IF processed.err # NoErr
    THEN <<ERRNEST>> \o ErrorText(processed.err)
    ELSE processed.text

\* SelectedContent with the else branch never selected
SelectedContentThenOnly(m, V) == m.thenBody

\* the branch the callback selects
SelectedContent(m, V) ==
    IF EvaluateExpression(m.cond, V) THEN m.thenBody ELSE m.elseBody

\* processConditionals.  replaced[i] is
\* re.ReplaceAllStringFunc(content[i:], callback): each block, from left to
\* right, is replaced by what the callback returns for it.
RECURSIVE processConditionals(_, _, _, _)
processConditionals(content, depth, V, limit) ==
    LET replaced[i \in 1..(Len(content) + 1)] ==
            LET s == From(content, i)
                m == FindBlock(s)
            IN  IF ~m.found THEN s
                ELSE SubSeq(s, 1, m.start - 1)
                       \o BlockReplacement(
                              processConditionals(SelectedContent(m, V),
                                                  depth + 1, V, limit))
                       \o replaced[i + m.end]
    IN  IF depth > limit
        THEN [text |-> <<>>, err |-> Err("nesting", <<ToString(limit)>>)]
        ELSE CondResult(replaced[1])

\* Template.Process calls t.processConditionals(contentWithFiles, 0)
ProcessConditionals ==
    /\ pc = "conds"
    /\ LET res == processConditionals(text, 0, Variables, MaxDepth)
       IN  /\ err' = res.err
           /\ text' = res.text
           /\ pc' = NextStage("conds", res.err)
           /\ hist' = [hist EXCEPT !.stages = Append(@, "conds"),
                                   !.condIn = text,
                                   !.condOut = res.text]
    /\ UNCHANGED <<rvars, issues, evars, avars,
                   Content, Variables, BaseDir, MaxDepth, api, fs, writes, fp,
                   stack>>

-----------------------------------------------------------------------------
(* ProcessPrompt and VariableProcessor *)

\* The end of the match at index i of s of  {{([^{}]+)}} , 0 when there is none
SpanEnd(s, i) ==
    LET braces == {j \in (i + 1)..Len(s) : s[j] \in {LB, RB}}
    IN  IF At(s, i) = LB /\ braces # {} /\ s[Min(braces)] = RB
           /\ Min(braces) > i + 1
        THEN Min(braces) ELSE 0

\* re.FindAllStringSubmatch(s, -1) for {{([^{}]+)}}: the submatches, trimmed
RECURSIVE SpanNames(_)
SpanNames(s) ==
    LET hits == {i \in 1..Len(s) : SpanEnd(s, i) # 0}
    IN  IF hits = {} THEN <<>>
        ELSE LET i == Min(hits)
             IN  <<TrimSpace(SubSeq(s, i + 1, SpanEnd(s, i) - 1))>>
                   \o SpanNames(From(s, SpanEnd(s, i) + 1))

\* strings.HasPrefix(varName, "file ") || (.., "if ") || (.., "else") ||
\* (.., "endif")
IsDirectiveName(name) ==
    \/ At(name, 1) \in {WFILE, "if"} /\ At(name, 2) = SP
    \/ At(name, 1) \in ElseWords \cup EndifWords

\* checkSimpleVars
checkSimpleVars(promptTemplate, V) ==
    SelectSeq(SpanNames(promptTemplate),
              LAMBDA name : ~IsDirectiveName(name) /\ ~Exists(V, name))

\* The loop of ProcessPrompt over the map: {{name}} is replaced by the string
\* form of the value, one variable after the other in the order of the range
RECURSIVE ReplaceVars(_, _, _)
ReplaceVars(result, V, order) ==
    IF order = <<>> THEN result
    ELSE ReplaceVars(ReplaceAll(result, <<LB, Head(order), RB>>,
                                Sprint(V[Head(order)])),
                     V, Tail(order))

\* template.New("prompt").Parse(promptTemplate) and Execute.  An action of
\* the texts modelled here is an identifier that is no function of
\* text/template, an unclosed or an empty action: Parse fails.  A text without
\* action is executed to itself.
GoTemplate(promptTemplate) ==
    IF HasTok(promptTemplate, LB)
    THEN [text |-> <<>>, err |-> Err("template", <<>>)]
    ELSE [text |-> promptTemplate, err |-> NoErr]

ProcessPrompt(promptTemplate, V, order) ==
    LET missingVars == checkSimpleVars(promptTemplate, V)
        result == ReplaceVars(promptTemplate, V, order)
    IN  IF missingVars # <<>>
        THEN [text |-> <<>>, err |-> Err("missing", missingVars[1])]
        ELSE IF HasTok(result, LB) THEN GoTemplate(promptTemplate)
        ELSE [text |-> result, err |-> NoErr]

\* fmt.Sprintf("__ESCAPED_VAR_%d__", count)
EscapePlaceholder(count) == "__ESCAPED_VAR_" \o ToString(count) \o "__"

\* The end of the match at index i of s of  \\{{([^{}]+)}} , 0 when none
EscapedEnd(s, i) ==
    IF At(s, i) = BS THEN SpanEnd(s, i + 1) ELSE 0

\* VariableProcessor.Process, first part: every escaped span is replaced by a
\* numbered placeholder and kept.  [text, saved]: saved[n] is the span that
\* placeholder n - 1 stands for.
RECURSIVE HideEscaped(_, _)
HideEscaped(s, count) ==
    LET hits == {i \in 1..Len(s) : EscapedEnd(s, i) # 0}
    IN  IF hits = {} THEN [text |-> s, saved |-> <<>>]
        ELSE LET i == Min(hits)
                 rest == HideEscaped(From(s, EscapedEnd(s, i) + 1), count + 1)
             IN  [text |-> SubSeq(s, 1, i - 1) \o <<EscapePlaceholder(count)>>
                             \o rest.text,
                  saved |-> <<SubSeq(s, i, EscapedEnd(s, i))>> \o rest.saved]

\* VariableProcessor.Process, last part: every placeholder is replaced by its
\* span without the escape character, in the order of the range over the map
RECURSIVE RestoreEscaped(_, _, _)
RestoreEscaped(result, saved, order) ==
    IF order = <<>> THEN result
    ELSE RestoreEscaped(
             ReplaceAll(result, <<EscapePlaceholder(Head(order) - 1)>>,
                        Tail(saved[Head(order)])),
             saved, Tail(order))

VariableProcess(s, V, order, rorder) ==
    LET hidden == HideEscaped(s, 0)
        res == ProcessPrompt(hidden.text, V, order)
    IN  IF res.err # NoErr THEN res
        ELSE [text |-> RestoreEscaped(res.text, hidden.saved, rorder),
              err |-> NoErr]

\* the orders in which a range visits the keys S of a map
RECURSIVE Orders(_)
Orders(S) ==
    IF S = {} THEN {<<>>}
    ELSE UNION {{<<x>> \o o : o \in Orders(S \ {x})} : x \in S}

\* ProcessVariables that stores the result in t.Content
ProcessVariablesInPlace ==
    /\ pc = "vars"
    /\ \E order \in Orders(DOMAIN Variables) :
       \E rorder \in Orders(1..Len(HideEscaped(text, 0).saved)) :
          LET res == VariableProcess(text, Variables, order, rorder)
          IN  /\ err' = res.err
              /\ text' = res.text
              /\ Content' = res.text
              /\ pc' = NextStage("vars", res.err)
    /\ hist' = [hist EXCEPT !.stages = Append(@, "vars"), !.varIn = text]
    /\ UNCHANGED <<rvars, issues, evars, avars,
                   Variables, BaseDir, MaxDepth, api, fs, writes, fp,
                   stack>>

\* Template.Process calls t.variableProcessor.Process(contentWithConditionals)
ProcessVariables ==
    /\ pc = "vars"
    /\ \E order \in Orders(DOMAIN Variables) :
       \E rorder \in Orders(1..Len(HideEscaped(text, 0).saved)) :
          LET res == VariableProcess(text, Variables, order, rorder)
          IN  /\ err' = res.err
              /\ text' = res.text
              /\ pc' = NextStage("vars", res.err)
    /\ hist' = [hist EXCEPT !.stages = Append(@, "vars"), !.varIn = text]
    /\ UNCHANGED <<rvars, issues, evars, avars,
                   Content, Variables, BaseDir, MaxDepth, api, fs, writes, fp,
                   stack>>

\* The legacy entry point: ProcessPrompt(promptTemplate, vars)
LegacyProcessPrompt ==
    /\ pc = "start" /\ api = "ProcessPrompt"
    /\ \E order \in Orders(DOMAIN Variables) :
          LET res == ProcessPrompt(Content, Variables, order)
          IN  /\ err' = res.err
              /\ text' = res.text
    /\ pc' = "done"
    /\ hist' = [hist EXCEPT !.stages = Append(@, "vars"), !.varIn = Content]
    /\ UNCHANGED <<rvars, issues, evars, avars,
                   Content, Variables, BaseDir, MaxDepth, api, fs, writes, fp,
                   stack>>

-----------------------------------------------------------------------------
(* Template.Validate *)

\* s without the entries that an earlier entry equals (the seen map)
RECURSIVE Distinct(_)
Distinct(s) ==
    IF s = <<>> THEN <<>>
    ELSE LET front == Distinct(SubSeq(s, 1, Len(s) - 1))
             last  == s[Len(s)]
         IN  IF \E i \in 1..Len(front) : front[i] = last THEN front
             ELSE Append(front, last)

\* ExtractVariables
ExtractVariables(content) ==
    Distinct(SelectSeq(SpanNames(content), LAMBDA name : ~IsDirectiveName(name)))

\* ValidateVariables
ValidateVariables(content, V) ==
    SelectSeq(ExtractVariables(content), LAMBDA name : ~Exists(V, name))

\* re.FindAllStringSubmatch(s, -1) for the expression of the phase: the paths
RECURSIVE AllPaths(_, _)
AllPaths(phase, s) ==
    LET m == FindDirective(phase, s)
    IN  IF ~m.found THEN <<>>
        ELSE <<m.path>> \o AllPaths(phase, From(s, m.end + 1))

\* ExtractFileInclusions: the legacy matches, then the #include matches
ExtractFileInclusions(content) ==
    Distinct(AllPaths(1, content) \o AllPaths(2, content))

\* ValidateFileInclusions: os.Stat of the resolved path says it does not exist
ValidateFileInclusions(content, baseDir, files) ==
    SelectSeq(ExtractFileInclusions(content),
              LAMBDA path : Resolve(baseDir, path) \notin DOMAIN files)

Issue(kind, what) == [kind |-> kind, what |-> what]

RECURSIVE Issues(_, _)
Issues(kind, names) ==
    IF names = <<>> THEN <<>>
    ELSE <<Issue(kind, Head(names))>> \o Issues(kind, Tail(names))

\* Template.Validate
Validate(content, V, baseDir, files) ==
    Issues("missing variable", ValidateVariables(content, V))
      \o Issues("missing file", ValidateFileInclusions(content, baseDir, files))

\* A call of t.Validate()
CallValidate ==
    /\ pc = "start" /\ api = "Validate"
    /\ issues' = Validate(Content, Variables, BaseDir, fs)
    /\ pc' = "done"
    /\ UNCHANGED <<rvars, evars, avars, Content, Variables, BaseDir, MaxDepth, api,
                   fs, writes, fp, stack, text, err, hist>>

-----------------------------------------------------------------------------
(* The call *)

\* NewFileProcessor(workingDir)
NewFileProcessor(baseDir) ==
    [BaseDir |-> baseDir, MaxDepth |-> DefaultFileMaxDepth, currentDepth |-> 0,
     processedFiles |-> <<>>]

NoHist ==
    [stages |-> <<>>, fileOut |-> <<>>, fileErr |-> NoErr, condIn |-> <<>>, condOut |-> <<>>,
     varIn |-> <<>>, depthHit |-> FALSE, unreadable |-> {}, included |-> {},
     reads |-> <<>>, reread |-> {}]

\* NewTemplate(content, vars), SetBaseDir(Base), MaxDepth as set by the caller
\* no direct call of EvaluateExpression
NoVerdict == [value |-> FALSE, err |-> NoErr]
EvalIdle == exprArg = <<>> /\ verdict = NoVerdict

\* no call of package assertutil
NoValue == [t |-> "nil", s |-> <<>>, b |-> FALSE, n |-> 0]
NoAssertion == [Type |-> "", Value |-> NoValue]
NoResult == [Success |-> FALSE, Reason |-> "", Expected |-> <<>>]
AssertIdle ==
    /\ assertion = NoAssertion /\ input = <<>> /\ checked = NoResult
    /\ args = <<>> /\ Results = <<>> /\ calls = <<>>

\* no Registry in use
RegistryIdle ==
    /\ providers = <<>> /\ factories = <<>> /\ goroutines = <<>>
    /\ creates = <<>> /\ returns = <<>>

Init ==
    /\ \/ /\ Content \in ItemTemplates
          /\ MaxDepth = DefaultMaxDepth
          /\ api \in {"Process", "ProcessPrompt", "Validate"}
          /\ Variables = Vars1
       \/ /\ Content \in ChainTemplates
          /\ MaxDepth \in {0, 1, DefaultMaxDepth}
          /\ api = "Process"
          /\ Variables = Vars1
       \/ /\ Content \in CaseTemplates
          /\ MaxDepth = DefaultMaxDepth
          /\ api \in {"Process", "ProcessPrompt", "Validate"}
          /\ Variables \in VarSets
    /\ issues = <<>> /\ EvalIdle /\ AssertIdle /\ RegistryIdle
    /\ BaseDir = Base
    /\ fs = Files
    /\ writes = 0
    /\ fp = NewFileProcessor(Base)
    /\ stack = <<>>
    /\ pc = "start"
    /\ text = <<>>
    /\ err = NoErr
    /\ hist = NoHist

Next ==
    \/ StartProcess
    \/ IncludeDepthExceeded
    \/ IncludeCached
    \/ IncludeReadError
    \/ IncludeEnter
    \/ PhaseAdvance
    \/ IncludeReturn
    \/ FilesReturn
    \/ WriteFile
    \/ ProcessConditionals
    \/ ProcessVariables
    \/ LegacyProcessPrompt
    \/ CallValidate

Spec == Init /\ [][Next]_vars

-----------------------------------------------------------------------------
(* Direct calls of EvaluateExpression(expr, vars) *)

\* the tokens generated expressions are made of
ExprToks == {"s", "x", "q", "w", "n", "42", EQ, NE, SP, QUOTE}

\* the sequences of at most n elements of T
SeqsUpTo(T, n) == UNION {[1..k -> T] : k \in 0..n}

\* variable sets with values of every type
EvalVars1 ==
    [s |-> StrVal(<<"x">>), x |-> StrVal(<<"y">>), q |-> StrVal(<<QUOTE>>),
     w |-> StrVal(<<EQ, "x">>), n |-> IntVal(42), e |-> StrVal(<<>>),
     zero |-> StrVal(<<"0">>), no |-> StrVal(<<"false">>), z |-> IntVal(0),
     t |-> BoolVal(TRUE), f |-> BoolVal(FALSE), h |-> FloatVal(0),
     k |-> FloatVal(1), o |-> SliceVal]
EvalVars2 ==
    [s |-> IntVal(42), n |-> StrVal(<<"42">>), x |-> BoolVal(TRUE)]
EvalVarSets == {EvalVars1, EvalVars2}

\* the expressions: every sequence of tokens up to the bound, and every
\* variable name alone, with and without blanks around it
Exprs ==
    SeqsUpTo(ExprToks, MaxExprLen)
      \cup {<<name>> : name \in DOMAIN EvalVars1 \cup {"absent"}}
      \cup {<<SP, name, SP>> : name \in DOMAIN EvalVars1 \cup {"absent"}}

EvalInit ==
    /\ api = "EvaluateExpression"
    /\ exprArg \in Exprs
    /\ Variables \in EvalVarSets
    /\ verdict = NoVerdict
    /\ pc = "start"
    /\ Content = <<>> /\ BaseDir = Base /\ MaxDepth = DefaultMaxDepth
    /\ fs = Files /\ writes = 0 /\ fp = NewFileProcessor(Base)
    /\ stack = <<>> /\ text = <<>> /\ err = NoErr /\ hist = NoHist
    /\ issues = <<>> /\ AssertIdle /\ RegistryIdle

\* A call of EvaluateExpression(exprArg, Variables)
Evaluate ==
    /\ pc = "start" /\ api = "EvaluateExpression"
    /\ verdict' = [value |-> EvaluateExpression(exprArg, Variables),
                   err |-> EvaluateError(exprArg)]
    /\ pc' = "done"
    /\ UNCHANGED <<rvars, issues, exprArg, avars, Content, Variables, BaseDir,
                   MaxDepth, api, fs, writes, fp, stack, text, err, hist>>

EvalSpec == EvalInit /\ [][Evaluate]_vars

-----------------------------------------------------------------------------
(* Package assertutil.  A string is a sequence of characters. *)

\* the decimal digits of n, with its sign: fmt.Sprintf("%d", n)
RECURSIVE Decimal(_)
Decimal(n) ==
    IF n < 0 THEN <<"-">> \o Decimal(0 - n)
    ELSE IF n < 10 THEN <<ToString(n)>>
    ELSE Decimal(n \div 10) \o <<ToString(n % 10)>>

Digits == {ToString(d) : d \in 0..9}
DigitVal(c) == CHOOSE d \in 0..9 : ToString(d) = c

\* the number a sequence of digits denotes
RECURSIVE Number(_)
Number(ds) ==
    IF ds = <<>> THEN 0
    ELSE 10 * Number(SubSeq(ds, 1, Len(ds) - 1)) + DigitVal(ds[Len(ds)])

\* toString(v): the string, or fmt.Sprintf("%v", v)
toString(v) ==
    CASE v.t = "string" -> v.s
      [] v.t = "int" -> Decimal(v.n)
      [] v.t = "float" ->
            IF v.n % 2 = 0 THEN Decimal(v.n \div 2)
            ELSE Decimal(v.n \div 2) \o <<".", "5">>
      [] v.t = "bool" -> IF v.b THEN <<"t", "r", "u", "e">>
                         ELSE <<"f", "a", "l", "s", "e">>
      [] OTHER -> <<"<", "n", "i", "l", ">">>

\* strings.Contains, strings.HasPrefix, strings.HasSuffix
Contains(s, sub) == \E i \in 1..(Len(s) + 1) : StartsAt(s, i, sub)
HasPrefix(s, sub) == StartsAt(s, 1, sub)
HasSuffix(s, sub) ==
    Len(sub) <= Len(s) /\ StartsAt(s, Len(s) - Len(sub) + 1, sub)

\* regexp.Compile(pattern) succeeds.  The patterns are made of the
\* characters of OutChars: a pattern with "[" has a class that is not
\* closed, every other pattern is a literal.
CompilesAsRegex(pattern) == ~HasTok(pattern, "[")
\* re.MatchString(s) for a pattern that compiles
MatchString(pattern, s) == Contains(s, pattern)

\* json.Unmarshal([]byte(s), &v) succeeds.  The outputs are made of the
\* characters of OutChars: the only JSON texts among them are the numbers
\* made of the digit 1.
ValidJSON(s) == s # <<>> /\ \A i \in 1..Len(s) : s[i] = "1"

\* the most decimal digits a value of type int has
MaxIntDigits == 19

\* fmt.Sscanf(s, "%d", &n): [ok, n].  Blanks are skipped, a sign is
\* accepted, then the digits up to the first other character are read; with
\* no digit, or with more digits than an int has, the call fails and n
\* keeps its value 0.
Sscanf(s) ==
    LET p  == 1 + SpRun(s, 1)
        d  == IF At(s, p) \in {"-", "+"} THEN p + 1 ELSE p
        nd == {j \in d..Len(s) : s[j] \notin Digits}
        e  == IF nd = {} THEN Len(s) ELSE Min(nd) - 1
    IN  IF e < d \/ e - d + 1 > MaxIntDigits THEN [ok |-> FALSE, n |-> 0]
        ELSE [ok |-> TRUE,
              n |-> IF At(s, p) = "-" THEN 0 - Number(SubSeq(s, d, e))
                    ELSE Number(SubSeq(s, d, e))]

\* checkLengthComparison, first part: the operator, the expected length and
\* whether the comparison is accepted
ParseComparison(c) ==
    LET rest2 == Sscanf(From(c, 3))
        rest1 == Sscanf(From(c, 2))
    IN  IF HasPrefix(c, <<">", "=">>) THEN [ok |-> TRUE, op |-> ">=", n |-> rest2.n]
        ELSE IF HasPrefix(c, <<"<", "=">>) THEN [ok |-> TRUE, op |-> "<=", n |-> rest2.n]
        ELSE IF HasPrefix(c, <<">">>) THEN [ok |-> TRUE, op |-> ">", n |-> rest1.n]
        ELSE IF HasPrefix(c, <<"<">>) THEN [ok |-> TRUE, op |-> "<", n |-> rest1.n]
        ELSE IF HasPrefix(c, <<"=", "=">>) THEN [ok |-> TRUE, op |-> "==", n |-> rest2.n]
        ELSE IF HasPrefix(c, <<"=">>) THEN [ok |-> TRUE, op |-> "=", n |-> rest1.n]
        ELSE IF Sscanf(c).ok THEN [ok |-> TRUE, op |-> "=", n |-> Sscanf(c).n]
        ELSE [ok |-> FALSE, op |-> "", n |-> 0]

\* checkLengthComparison, second part: the switch on the operator
Compare(op, actualLen, expectedLen) ==
    CASE op = ">=" -> actualLen >= expectedLen
      [] op = "<=" -> actualLen <= expectedLen
      [] op = ">" -> actualLen > expectedLen
      [] op = "<" -> actualLen < expectedLen
      [] OTHER -> actualLen = expectedLen

\* the reason of a comparison that failed
CompareReason(op) ==
    CASE op = ">=" -> "output length is not >="
      [] op = "<=" -> "output length is not <="
      [] op = ">" -> "output length is not >"
      [] op = "<" -> "output length is not <"
      [] OTHER -> "output length does not equal"

\* checkLengthComparison(comparison, actualLen): (success, reason)
checkLengthComparison(comparison, actualLen) ==
    LET parsed == ParseComparison(TrimSpace(comparison))
    IN  IF ~parsed.ok
        THEN [Success |-> FALSE, Reason |-> "invalid length comparison"]
        ELSE IF Compare(parsed.op, actualLen, parsed.n)
        THEN [Success |-> TRUE, Reason |-> ""]
        ELSE [Success |-> FALSE, Reason |-> CompareReason(parsed.op)]

Outcome2(success, reason) ==
    [Success |-> success, Reason |-> IF success THEN "" ELSE reason]

\* int(expectedLen) of a float64 that is x halves
IntOfFloat(x) == x \div 2

\* Assertion.Check: the switch on a.Type
CheckType(a, out) ==
    LET expectedStr == toString(a.Value)
    IN  CASE a.Type = "contains" ->
               Outcome2(Contains(out, expectedStr),
                        "output does not contain expected string")
          [] a.Type = "not-contains" ->
               Outcome2(~Contains(out, expectedStr),
                        "output contains string that should not be present")
          [] a.Type = "equals" ->
               Outcome2(out = expectedStr, "output does not match expected string")
          [] a.Type = "regex" ->
               IF ~CompilesAsRegex(expectedStr)
               THEN [Success |-> FALSE, Reason |-> "invalid regex pattern"]
               ELSE Outcome2(MatchString(expectedStr, out),
                             "output does not match regex pattern")
          [] a.Type = "starts-with" ->
               Outcome2(HasPrefix(out, expectedStr), "output does not start with")
          [] a.Type = "ends-with" ->
               Outcome2(HasSuffix(out, expectedStr), "output does not end with")
          [] a.Type = "json" ->
               IF ~ValidJSON(out)
               THEN [Success |-> FALSE, Reason |-> "output is not valid JSON"]
               ELSE [Success |-> TRUE,
                     Reason |-> "JSON assertion not fully implemented yet"]
          [] a.Type = "length" ->
               IF a.Value.t = "float"
               THEN Outcome2(Len(out) = IntOfFloat(a.Value.n),
                             "output length does not match expected length")
               ELSE IF a.Value.t = "string"
               THEN checkLengthComparison(a.Value.s, Len(out))
               ELSE [Success |-> FALSE,
                     Reason |-> "length value must be a number or comparison string"]
          [] OTHER -> [Success |-> FALSE, Reason |-> "unknown assertion type"]

\* Check without the reason set for a success that has none
CheckNoPassedReason(a, out) ==
    [Success |-> CheckType(a, out).Success,
     Reason |-> CheckType(a, out).Reason,
     Expected |-> toString(a.Value)]

\* Assertion.Check(output)
Check(a, out) ==
    [Success |-> CheckType(a, out).Success,
     Reason |-> IF CheckType(a, out).Success /\ CheckType(a, out).Reason = ""
                THEN "Assertion passed" ELSE CheckType(a, out).Reason,
     Expected |-> toString(a.Value)]

\* what a method of Assert appends to Results
MethodResult(success, reason, expected) ==
    [Success |-> success,
     Reason |-> IF success THEN "Assertion passed" ELSE reason,
     Expected |-> expected]

\* the characters of the outputs and of the string values
OutChars == {"a", "1", "["}
\* the characters of the length comparisons
CmpChars == {">", "<", "=", "1", "2", "-", "a", " "}

Outputs == SeqsUpTo(OutChars, MaxOutLen)
\* one output of each length
LenOutputs == {[i \in 1..k |-> "a"] : k \in 0..MaxOutLen}

\* a number with more digits than an int has
LongNumber == [i \in 1..(MaxIntDigits + 1) |-> "1"]

Kinds == {"contains", "not-contains", "equals", "regex", "starts-with",
          "ends-with", "json", "length", "custom"}

\* values that are no string: float64, int, bool, nil
OtherValues ==
    {FloatVal(2 * k) : k \in 0..MaxOutLen} \cup {FloatVal(3), IntVal(1), IntVal(2),
      BoolVal(TRUE), NoValue}

Assertions ==
    [Type : Kinds,
     Value : {StrVal(v) : v \in SeqsUpTo(OutChars, MaxPatLen)} \cup OtherValues]

Comparisons ==
    [Type : {"length"},
     Value : {StrVal(c) : c \in SeqsUpTo(CmpChars, MaxCmpLen)
                                   \cup {<<">", "=">> \o LongNumber,
                                         <<"<">> \o LongNumber}}]

\* the lengths given to the Length methods of Assert
Lengths == (0 - 1)..1

\* the inputs of an Assert object and the outputs given to CheckAll
ObjInputs == {<<>>, <<"a">>, <<"1">>, <<"a", "1">>}
\* the strings given to the methods of Assert
ObjStrings == {<<"a">>, <<"[">>}

\* JSON schemas: one that accepts every document, one that accepts strings
\* only, one that is no JSON text
AnySchema == <<"{", "}">>
StringSchema ==
    <<"{", "\"", "t", "y", "p", "e", "\"", ":", "\"", "s", "t", "r", "i", "n",
      "g", "\"", "}">>
Schemas == {AnySchema, StringSchema, <<"[">>}

\* gojsonschema.Validate(schema, document) for a document that is valid
\* JSON, hence a number: "error", "valid" or "invalid"
SchemaValidate(schema, doc) ==
    CASE schema = AnySchema -> "valid"
      [] schema = StringSchema -> "invalid"
      [] OTHER -> "error"

\* the functions given to Custom: what fn(a.Input) returns
CustomFns == [ok : BOOLEAN, reason : {"", "why"}]

\* the assertions of the lists given to CheckAll
ListAssertions ==
    {[Type |-> "contains", Value |-> StrVal(<<"a">>)],
     [Type |-> "equals", Value |-> StrVal(<<"1">>)],
     [Type |-> "regex", Value |-> StrVal(<<"[">>)],
     [Type |-> "custom", Value |-> StrVal(<<"a">>)],
     [Type |-> "length", Value |-> StrVal(<<">", "=", "1">>)],
     [Type |-> "length", Value |-> BoolVal(TRUE)]}

\* an AssertionResult: the assertion, the output, what the check gave
Result(a, out, res) ==
    [Assertion |-> a, Actual |-> out, Success |-> res.Success,
     Reason |-> res.Reason, Expected |-> res.Expected]

\* CheckAll that stops at the first assertion that fails
RECURSIVE CheckAllUntilFailure(_, _)
CheckAllUntilFailure(out, assertions) ==
    IF assertions = <<>> THEN <<>>
    ELSE IF ~Check(Head(assertions), out).Success
    THEN <<Result(Head(assertions), out, Check(Head(assertions), out))>>
    ELSE <<Result(Head(assertions), out, Check(Head(assertions), out))>>
           \o CheckAllUntilFailure(out, Tail(assertions))

\* CheckAll(output, assertions)
RECURSIVE CheckAll(_, _)
CheckAll(out, assertions) ==
    IF assertions = <<>> THEN <<>>
    ELSE <<Result(Head(assertions), out, Check(Head(assertions), out))>>
           \o CheckAll(out, Tail(assertions))

\* AllPassed(results), Assert.AllPassed()
RECURSIVE AllPassed(_)
AllPassed(results) ==
    IF results = <<>> THEN TRUE
    ELSE IF ~Head(results).Success THEN FALSE
    ELSE AllPassed(Tail(results))

\* Assert.GetFailures()
RECURSIVE GetFailures(_)
GetFailures(results) ==
    IF results = <<>> THEN <<>>
    ELSE IF ~Head(results).Success
    THEN <<Head(results)>> \o GetFailures(Tail(results))
    ELSE GetFailures(Tail(results))

AssertInit ==
    /\ \/ /\ api = "Check"
          /\ \/ assertion \in Assertions /\ input \in Outputs
             \/ assertion \in Comparisons /\ input \in LenOutputs
          /\ args = <<>>
       \/ /\ api = "Assert"
          /\ assertion = NoAssertion /\ input \in ObjInputs
          /\ args = <<>>
       \/ /\ api = "CheckAll"
          /\ assertion = NoAssertion /\ input \in ObjInputs
          /\ args \in SeqsUpTo(ListAssertions, MaxList)
    /\ checked = NoResult /\ Results = <<>> /\ calls = <<>>
    /\ pc = "start"
    /\ Content = <<>> /\ Variables = Vars1 /\ BaseDir = Base
    /\ MaxDepth = DefaultMaxDepth
    /\ fs = Files /\ writes = 0 /\ fp = NewFileProcessor(Base)
    /\ stack = <<>> /\ text = <<>> /\ err = NoErr /\ hist = NoHist
    /\ issues = <<>> /\ EvalIdle /\ RegistryIdle

\* A call of assertion.Check(input)
CallCheck ==
    /\ pc = "start" /\ api = "Check"
    /\ checked' = Check(assertion, input)
    /\ pc' = "done"
    /\ UNCHANGED <<rvars, issues, evars, assertion, input, args, Results, calls,
                   Content, Variables, BaseDir, MaxDepth, api, fs, writes, fp,
                   stack, text, err, hist>>

\* A call of CheckAll(input, args)
CallCheckAll ==
    /\ pc = "start" /\ api = "CheckAll"
    /\ Results' = CheckAll(input, args)
    /\ calls' = Append(calls, [method |-> "CheckAll", args |-> args,
                               ret |-> CheckAll(input, args)])
    /\ pc' = "done"
    /\ UNCHANGED <<rvars, issues, evars, assertion, input, checked, args, Content,
                   Variables, BaseDir, MaxDepth, api, fs, writes, fp, stack,
                   text, err, hist>>

\* a call that reads Results and returns ret
Returned(method, ret) ==
    /\ api \in {"Assert", "CheckAll"} /\ Len(calls) < MaxCalls
    /\ calls' = Append(calls, [method |-> method, args |-> Results, ret |-> ret])
    /\ UNCHANGED <<rvars, issues, evars, assertion, input, checked, args, Results, pc,
                   Content, Variables, BaseDir, MaxDepth, api, fs, writes, fp,
                   stack, text, err, hist>>

\* AllPassed(Results), a.AllPassed()
CallAllPassed == Returned("AllPassed", AllPassed(Results))

\* a.GetFailures()
CallGetFailures ==
    api = "Assert" /\ Returned("GetFailures", GetFailures(Results))

\* the rest of a method of Assert: the Assertion it records, the result it
\* appends to Results, what it returns
Recorded(method, as, a, res, ret) ==
    /\ api = "Assert" /\ Len(calls) < MaxCalls
    /\ assertion' = a
    /\ checked' = res
    /\ args' = as
    /\ Results' = Append(Results, Result(a, input, res))
    /\ calls' = Append(calls, [method |-> method, args |-> as, ret |-> ret])
    /\ pc' = "done"
    /\ UNCHANGED <<rvars, issues, evars, input, Content, Variables, BaseDir,
                   MaxDepth, api, fs, writes, fp, stack, text, err, hist>>

\* a method of Assert that returns result.Success
Appended(method, as, a, res) == Recorded(method, as, a, res, res.Success)

\* a.Contains(substr)
CallContains ==
    \E substr \in ObjStrings :
       Appended("Contains", <<substr>>,
                [Type |-> "contains", Value |-> StrVal(substr)],
                MethodResult(Contains(input, substr),
                             "input does not contain expected string", substr))

\* a.NotContains(substr)
NotContains ==
    \E substr \in ObjStrings :
       Appended("NotContains", <<substr>>,
                [Type |-> "not-contains", Value |-> StrVal(substr)],
                MethodResult(~Contains(input, substr),
                             "input contains string that should not be present",
                             substr))

\* a.Equals(expected)
Equals ==
    \E expected \in ObjStrings :
       Appended("Equals", <<expected>>,
                [Type |-> "equals", Value |-> StrVal(expected)],
                MethodResult(input = expected,
                             "input does not match expected string", expected))

\* a.StartsWith(prefix)
StartsWith ==
    \E prefix \in ObjStrings :
       Appended("StartsWith", <<prefix>>,
                [Type |-> "starts-with", Value |-> StrVal(prefix)],
                MethodResult(HasPrefix(input, prefix),
                             "input does not start with", prefix))

\* a.EndsWith(suffix)
EndsWith ==
    \E suffix \in ObjStrings :
       Appended("EndsWith", <<suffix>>,
                [Type |-> "ends-with", Value |-> StrVal(suffix)],
                MethodResult(HasSuffix(input, suffix),
                             "input does not end with", suffix))

\* MatchesRegex whose early return for an invalid pattern appends nothing
MatchesRegexNoEntry ==
    \E pattern \in ObjStrings :
       IF ~CompilesAsRegex(pattern)
       THEN Returned("MatchesRegex", FALSE)
       ELSE Appended("MatchesRegex", <<pattern>>,
                     [Type |-> "regex", Value |-> StrVal(pattern)],
                     MethodResult(MatchString(pattern, input),
                                  "input does not match regex pattern", pattern))

\* a.MatchesRegex(pattern)
MatchesRegex ==
    \E pattern \in ObjStrings :
       IF ~CompilesAsRegex(pattern)
       THEN Recorded("MatchesRegex", <<pattern>>,
                     [Type |-> "regex", Value |-> StrVal(pattern)],
                     MethodResult(FALSE, "invalid regex pattern", pattern), FALSE)
       ELSE Appended("MatchesRegex", <<pattern>>,
                     [Type |-> "regex", Value |-> StrVal(pattern)],
                     MethodResult(MatchString(pattern, input),
                                  "input does not match regex pattern", pattern))

\* a.LengthEquals(length)
LengthEquals ==
    \E length \in Lengths :
       Appended("LengthEquals", <<length>>,
                [Type |-> "length", Value |-> FloatVal(2 * length)],
                MethodResult(Len(input) = length,
                             "input length does not equal", Decimal(length)))

\* a.LengthGreaterThan(length)
LengthGreaterThan ==
    \E length \in Lengths :
       Appended("LengthGreaterThan", <<length>>,
                [Type |-> "length",
                 Value |-> StrVal(<<">">> \o Decimal(length))],
                MethodResult(Len(input) > length, "input length is not >",
                             <<">">> \o Decimal(length)))

\* a.LengthLessThan(length)
LengthLessThan ==
    \E length \in Lengths :
       Appended("LengthLessThan", <<length>>,
                [Type |-> "length",
                 Value |-> StrVal(<<"<">> \o Decimal(length))],
                MethodResult(Len(input) < length, "input length is not <",
                             <<"<">> \o Decimal(length)))

\* a.LengthInRange(min, max)
LengthInRange ==
    \E min \in Lengths, max \in Lengths :
       Appended("LengthInRange", <<min, max>>,
                [Type |-> "length",
                 Value |-> StrVal(<<">", "=">> \o Decimal(min)
                                   \o <<",", "<", "=">> \o Decimal(max))],
                MethodResult(Len(input) >= min /\ Len(input) <= max,
                             "input length is not between",
                             <<"between">> \o Decimal(min) \o <<"and">>
                               \o Decimal(max)))

\* a.IsValidJSON()
IsValidJSON ==
    Appended("IsValidJSON", <<>>,
             [Type |-> "json", Value |-> StrVal(<<"valid">>)],
             MethodResult(ValidJSON(input), "input is not valid JSON",
                          <<"valid JSON">>))

\* a.MatchesJSONSchema(schema)
MatchesJSONSchema ==
    \E schema \in Schemas :
       IF ~ValidJSON(input)
       THEN Recorded("MatchesJSONSchema", <<schema>>,
                     [Type |-> "json", Value |-> StrVal(schema)],
                     MethodResult(FALSE, "input is not valid JSON",
                                  <<"JSON matching schema">>), FALSE)
       ELSE IF SchemaValidate(schema, input) = "error"
       THEN Recorded("MatchesJSONSchema", <<schema>>,
                     [Type |-> "json", Value |-> StrVal(schema)],
                     MethodResult(FALSE, "schema validation error",
                                  <<"JSON matching schema">>), FALSE)
       ELSE Appended("MatchesJSONSchema", <<schema>>,
                     [Type |-> "json", Value |-> StrVal(schema)],
                     MethodResult(SchemaValidate(schema, input) = "valid",
                                  "JSON schema validation failed",
                                  <<"JSON matching schema">>))

\* a.Custom(name, fn), for the name "c"
Custom ==
    \E fn \in CustomFns :
       Appended("Custom", <<fn>>,
                [Type |-> "custom:c", Value |-> StrVal(<<"c">>)],
                [Success |-> fn.ok,
                 Reason |-> IF fn.reason # "" THEN fn.reason
                            ELSE IF fn.ok THEN "Assertion passed"
                            ELSE "custom assertion failed",
                 Expected |-> <<"custom assertion">>])

AssertNext ==
    \/ CallCheck
    \/ CallCheckAll
    \/ CallAllPassed
    \/ CallGetFailures
    \/ CallContains
    \/ NotContains
    \/ Equals
    \/ StartsWith
    \/ EndsWith
    \/ MatchesRegex
    \/ LengthEquals
    \/ LengthGreaterThan
    \/ LengthLessThan
    \/ LengthInRange
    \/ IsValidJSON
    \/ MatchesJSONSchema
    \/ Custom

AssertSpec == AssertInit /\ [][AssertNext]_vars

-----------------------------------------------------------------------------
(* Properties *)

Done == pc = "done"
Ran(stage) == \E i \in 1..Len(hist.stages) : hist.stages[i] = stage
\* FileProcessor.Process has returned to Template.Process
FilesDone == api = "Process" /\ pc \in {"conds", "vars", "done"}

\* C1: Template.Process runs file inclusion, then conditional processing,
\* then variable substitution, each stage on the text the stage before it
\* returned, and a later stage runs only when no earlier stage failed: the
\* error of a failed stage ends the call.
C1_StageOrder ==
    api = "Process" =>
      /\ \E n \in 0..3 : hist.stages = SubSeq(<<"files", "conds", "vars">>, 1, n)
      /\ pc \in {"conds", "vars"} => err = NoErr
      /\ pc = "conds" => hist.stages = <<"files">> /\ text = hist.fileOut
      /\ pc = "vars" => hist.stages = <<"files", "conds">>
                        /\ hist.condIn = hist.fileOut /\ text = hist.condOut
      /\ Done /\ err.kind = "read" => hist.stages = <<"files">>
      /\ Done /\ err.kind \in {"condition", "nested", "nesting"}
            => hist.stages = <<"files", "conds">>
      /\ Done /\ err = NoErr => /\ hist.stages = <<"files", "conds", "vars">>
                                /\ hist.varIn = hist.condOut

\* C1 witness: a call that included f.txt, whose text refers to variable a,
\* and returned the value of a after all three stages
C1_Witness ==
    /\ Done /\ api = "Process" /\ Content = Include(<<"f.txt">>)
    /\ err = NoErr /\ text = <<"A">> /\ writes = 0

\* the identifiers a text refers to in a {{identifier}} span that is not
\* escaped: the trimmed inner text of the span, when it is one word
RECURSIVE ReferencedFrom(_, _)
ReferencedFrom(s, i) ==
    IF i > Len(s) THEN <<>>
    ELSE IF SpanEnd(s, i) = 0 THEN ReferencedFrom(s, i + 1)
    ELSE (IF At(s, i - 1) # BS
             /\ Len(TrimSpace(SubSeq(s, i + 1, SpanEnd(s, i) - 1))) = 1
          THEN <<TrimSpace(SubSeq(s, i + 1, SpanEnd(s, i) - 1))>>
          ELSE <<>>)
         \o ReferencedFrom(s, SpanEnd(s, i) + 1)

MissingIdentifiers(s, V) ==
    SelectSeq(ReferencedFrom(s, 1), LAMBDA name : ~Exists(V, name))

\* C2: a template that refers, in a {{identifier}} span that is not escaped,
\* to an identifier absent from the variable set makes Process and
\* ProcessPrompt fail with the missing-variable error that names the first
\* such identifier.
C2_MissingVariableReported ==
    Done /\ MissingIdentifiers(Content, Variables) # <<>>
      => err = Err("missing", MissingIdentifiers(Content, Variables)[1])

\* C3: when every {{...}} span of the text handed to the substitution is
\* unescaped and its trimmed inner text is a variable of the set, the call
\* succeeds and no {{identifier}} span is left in the result.
C3_SubstitutionTotal ==
    /\ Done /\ Ran("vars")
    /\ SpanNames(hist.varIn) # <<>>
    /\ ~HasTok(hist.varIn, BS)
    /\ \A i \in 1..Len(SpanNames(hist.varIn)) :
          Exists(Variables, SpanNames(hist.varIn)[i])
    => err = NoErr /\ SpanNames(text) = <<>>

\* every {{ of s is escaped and s holds no # directive
OnlyEscaped(s) ==
    /\ HasTok(s, LB)
    /\ \A i \in 1..Len(s) :
          /\ s[i] = LB => At(s, i - 1) = BS /\ SpanEnd(s, i) # 0
          /\ s[i] \notin HashToks

\* s without the escape character of each escaped span
Unescaped(s) ==
    LET keep == {i \in 1..Len(s) : ~(s[i] = BS /\ At(s, i + 1) = LB)}
        ix[n \in 0..Len(s)] ==
            IF n = 0 THEN <<>>
            ELSE IF n \in keep THEN Append(ix[n - 1], s[n]) ELSE ix[n - 1]
    IN  ix[Len(s)]

\* C4: a template whose {{...}} spans are all escaped is rendered by Process
\* to itself without the escape characters, whatever the inner text of the
\* spans is.
C4_EscapedInert ==
    Done /\ api = "Process" /\ OnlyEscaped(Content)
      => err = NoErr /\ text = Unescaped(Content)

\* the conditions and bodies of the blocks C5 is stated for
C5Bodies ==
    {<<"x", SP>>, <<"y", SP>>, Ref(<<"a">>) \o <<SP>>, Ref(<<"b">>) \o <<SP>>}
C5Blocks ==
    [cond : {<<"yes">>, <<"no">>}, thenBody : C5Bodies,
     hasElse : BOOLEAN, elseBody : C5Bodies]
C5Text(b) ==
    IF b.hasElse THEN IfThenElse(b.cond, b.thenBody, b.elseBody)
    ELSE IfThen(b.cond, b.thenBody)
C5Selected(b, V) ==
    IF EvaluateExpression(b.cond, V) THEN b.thenBody
    ELSE IF b.hasElse THEN b.elseBody ELSE <<>>
\* s holds one #if, one #endif after it and no directive outside of them
C5OneBlock(s) ==
    /\ Cardinality({i \in 1..Len(s) : s[i] = HIF}) = 1
    /\ Cardinality({i \in 1..Len(s) : s[i] = HENDIF}) = 1
    /\ NextTok(s, 1, HIF) < NextTok(s, 1, HENDIF)
    /\ \A i \in 1..Len(s) :
          s[i] \in HashToks \cup {ERRCOND, ERRNEST}
            => i \in NextTok(s, 1, HIF)..NextTok(s, 1, HENDIF)

C6_NestedBlocksResolved ==
    /\ Content \in ChainTemplates /\ Ran("conds")
    /\ err.kind \notin {"condition", "nested", "nesting"}
    => ~HasTok(hist.condOut, HIF) /\ ~HasTok(hist.condOut, HENDIF)

\* the number of blocks of a chain template
ChainDepth(s) == CHOOSE n \in 2..MaxChain : s = Chain(n)

\* C7: a chain of N nested blocks with true conditions fails with the
\* nesting error when N > MaxDepth and succeeds when N = MaxDepth.
C7_DepthLimit ==
    Done /\ Content \in ChainTemplates =>
      /\ ChainDepth(Content) > MaxDepth => err.kind \in {"nesting", "nested"}
      /\ ChainDepth(Content) = MaxDepth => err = NoErr

\* C8: when the file of an inclusion cannot be read, FileProcessor.Process
\* returns an error that names the path written in a failing directive.
C8_ReadErrorNamesPath ==
    FilesDone /\ hist.unreadable # {} =>
      hist.fileErr.kind = "read" /\ hist.fileErr.detail \in hist.unreadable

\* C9: when the inclusions nest deeper than MaxDepth, the error of
\* FileProcessor.Process is the max-depth error and states the limit; a
\* chain of MaxDepth files succeeds.
C9_MaxDepthError ==
    FilesDone =>
      /\ hist.depthHit => hist.fileErr = Err("maxdepth", <<ToString(fp.MaxDepth)>>)
      /\ Content = Include(<<ChainFile(MaxFileChain - fp.MaxDepth + 1)>>)
            => hist.fileErr = NoErr

\* C10: a path that was included with success is not read again by a later
\* inclusion of the same path string.
C10_CachedNotReread == hist.reread = {}

\* the template includes a file that includes itself
CyclicInclusion == HasTok(Content, "self") \/ HasTok(Content, "loop")

\* C11: Template.Process terminates: a call is never stuck before it is
\* done, the inclusions being expanded never nest deeper than MaxDepth, and a
\* call whose template includes a file that includes itself ends in an
\* error, never in a rendering.
C11_Terminates ==
    api = "Process" =>
      /\ pc = "files" => stack # <<>>
      /\ fp.currentDepth <= fp.MaxDepth /\ Len(stack) <= fp.MaxDepth + 1
      /\ Done /\ CyclicInclusion => err # NoErr

\* what a caller sees of a result: the text, or the kind of the error
Outcome(res) == [text |-> res.text, kind |-> res.err.kind]

\* the outcomes of the substitution stage on text t, one for each order in
\* which the variables and the hidden spans can be visited
VariableOutcomes(t, V) ==
    {Outcome(VariableProcess(t, V, order, rorder)) :
        order \in Orders(DOMAIN V),
        rorder \in Orders(1..Len(HideEscaped(t, 0).saved))}

\* C12: Process and ProcessPrompt return the same outcome whatever the order
\* in which the variables of the set are visited during substitution.
C12_Deterministic ==
    Done /\ Ran("vars") =>
      /\ api = "Process" =>
            VariableOutcomes(hist.varIn, Variables) = {Outcome([text |-> text, err |-> err])}
      /\ api = "ProcessPrompt" =>
            {Outcome(ProcessPrompt(Content, Variables, order)) :
                order \in Orders(DOMAIN Variables)}
              = {Outcome([text |-> text, err |-> err])}

\* EvaluateExpression has returned
Evaluated == api = "EvaluateExpression" /\ pc = "done"
\* the operator of the expression by the order of the grammar
OpOf(e) == IF HasTok(e, EQ) THEN EQ ELSE IF HasTok(e, NE) THEN NE ELSE ""
\* the sides of a comparison split at the first occurrence of its operator
LeftOf(e) == TrimSpace(SubSeq(e, 1, NextTok(e, 1, OpOf(e)) - 1))
RightOf(e) == TrimSpace(From(e, NextTok(e, 1, OpOf(e)) + 1))

InQuotes(right) ==
    Len(right) >= 2 /\ right[1] = QUOTE /\ right[Len(right)] = QUOTE

\* what a right side denotes: the text between the quotes, else the value of
\* the variable of that name, else the right side itself
Denoted(V, right) ==
    IF InQuotes(right) THEN SubSeq(right, 2, Len(right) - 1)
    ELSE IF Exists(V, right) THEN Sprint(V[right[1]])
    ELSE right

\* C14: in a comparison whose left variable exists, a right side in double
\* quotes is the literal between the quotes, otherwise the value of the
\* variable of that name if there is one, otherwise a literal; the %v
\* string forms of the two sides are compared.
C14_RightSideOrder ==
    Evaluated /\ OpOf(exprArg) # "" /\ Exists(Variables, LeftOf(exprArg)) =>
      verdict.value =
        IF OpOf(exprArg) = EQ
        THEN Sprint(Variables[LeftOf(exprArg)[1]])
               = Denoted(Variables, RightOf(exprArg))
        ELSE Sprint(Variables[LeftOf(exprArg)[1]])
               # Denoted(Variables, RightOf(exprArg))

\* a truth check: the expression is a name, with or without blanks around
BareName(e) == OpOf(e) = "" /\ Len(TrimSpace(e)) = 1

Validated == api = "Validate" /\ pc = "done"

\* where the text first refers to what the issue names: the first span with
\* that name, the first inclusion directive, of either syntax, with that path
FirstAppearance(content, issue) ==
    IF issue.kind = "missing variable"
    THEN Min({i \in 1..Len(content) :
                /\ SpanEnd(content, i) # 0
                /\ TrimSpace(SubSeq(content, i + 1, SpanEnd(content, i) - 1))
                     = issue.what})
    ELSE Min({i \in 1..Len(content) :
                \E phase \in {1, 2} :
                   /\ DirectiveAt(phase, content, i).found
                   /\ DirectiveAt(phase, content, i).path = issue.what})

\* C16: Validate returns the missing-variable issues first, then the
\* missing-file issues, each kind in the order of first appearance in the
\* template text, and no issue twice.
C16_ValidateOrder ==
    Validated =>
      \A i, j \in 1..Len(issues) :
         i < j =>
           /\ issues[i] # issues[j]
           /\ issues[i].kind = "missing file" => issues[j].kind = "missing file"
           /\ issues[i].kind = issues[j].kind =>
                 FirstAppearance(Content, issues[i])
                   < FirstAppearance(Content, issues[j])

\* s without the escape character of each escaped span
WithoutMarkers(s) ==
    SelectSeq([i \in 1..Len(s) |-> IF EscapedEnd(s, i) # 0 THEN EOT ELSE s[i]],
              LAMBDA tok : tok # EOT)

\* C17: hiding the escaped spans of the text handed to
\* VariableProcessor.Process and restoring them, in whatever order the
\* placeholders are visited, yields the text without the escape character
\* of each escaped span, every other token unchanged.
C17_HideRestore ==
    api = "Process" /\ Ran("vars") =>
      \A rorder \in Orders(1..Len(HideEscaped(hist.varIn, 0).saved)) :
         RestoreEscaped(HideEscaped(hist.varIn, 0).text,
                        HideEscaped(hist.varIn, 0).saved, rorder)
           = WithoutMarkers(hist.varIn)

\* a call of Assertion.Check that returned
Asserted == api = "Check" /\ pc = "done"

\* the known assertion kinds
KnownKinds == {"contains", "not-contains", "equals", "regex", "starts-with",
               "ends-with", "json", "length"}

\* C18: Assertion.Check returns an AssertionResult for every assertion
\* and every output, and the result has a reason that is not empty; an
\* assertion that is malformed (a regex that does not compile, an unknown
\* kind, a length value that is neither a number nor a string) gives
\* Success = false with a reason that describes the problem.
C18_CheckTotal ==
    /\ api = "Check" => DOMAIN Check(assertion, input) = DOMAIN NoResult
    /\ Asserted =>
         /\ checked.Reason # ""
         /\ checked.Expected = toString(assertion.Value)
         /\ assertion.Type = "regex" /\ HasTok(toString(assertion.Value), "[") =>
               ~checked.Success /\ checked.Reason = "invalid regex pattern"
         /\ assertion.Type \notin KnownKinds =>
               ~checked.Success /\ checked.Reason = "unknown assertion type"
         /\ assertion.Type = "length"
              /\ assertion.Value.t \notin {"float", "int", "string"} =>
               /\ ~checked.Success
               /\ checked.Reason = "length value must be a number or comparison string"

\* a successful check of a comparison, and a regex that does not compile
C18_Witness ==
    /\ Asserted
    /\ \/ assertion.Type = "length" /\ assertion.Value.t = "string"
          /\ checked.Success /\ checked.Reason = "Assertion passed"
       \/ assertion.Type = "regex" /\ assertion.Value = StrVal(<<"[", "a">>)
          /\ ~checked.Success

\* the characters of a comparison operator
OpChars(op) ==
    CASE op = ">=" -> <<">", "=">>
      [] op = "<=" -> <<"<", "=">>
      [] op = "==" -> <<"=", "=">>
      [] OTHER -> <<op>>

\* L op n
Holds(op, L, n) ==
    CASE op = ">=" -> L >= n
      [] op = "<=" -> L <= n
      [] op = ">" -> L > n
      [] op = "<" -> L < n
      [] OTHER -> L = n

\* the length value is the comparison of op and n, or the number n
ValueIs(op, n) ==
    \/ assertion.Value = StrVal(OpChars(op) \o Decimal(n))
    \/ op = "=" /\ assertion.Value \in {StrVal(Decimal(n)), FloatVal(2 * n), IntVal(n)}

\* C19: a length assertion with value >=n, <=n, >n, <n, ==n, =n, the
\* bare string n or the number n succeeds iff the length L of the output
\* is >= n, <= n, > n, < n, = n; a number that is larger than every length
\* is never reached and never exceeded; LengthGreaterThan and LengthLessThan
\* of Assert are strict, LengthInRange(min, max) succeeds iff min <= L <= max.
C19_LengthExact ==
    pc = "done" =>
      /\ api = "Check" /\ assertion.Type = "length" =>
           /\ \A n \in (0 - 22)..22 : \A op \in {">=", "<=", ">", "<", "==", "="} :
                 ValueIs(op, n) => (checked.Success <=> Holds(op, Len(input), n))
           /\ assertion.Value = StrVal(<<">", "=">> \o LongNumber) => ~checked.Success
           /\ assertion.Value = StrVal(<<"<">> \o LongNumber) => checked.Success
      /\ \A i \in 1..Len(calls) :
           /\ calls[i].method = "LengthEquals" =>
                 (calls[i].ret <=> Len(input) = calls[i].args[1])
           /\ calls[i].method = "LengthGreaterThan" =>
                 (calls[i].ret <=> Len(input) > calls[i].args[1])
           /\ calls[i].method = "LengthLessThan" =>
                 (calls[i].ret <=> Len(input) < calls[i].args[1])
           /\ calls[i].method = "LengthInRange" =>
                 (calls[i].ret <=> calls[i].args[1] <= Len(input)
                                    /\ Len(input) <= calls[i].args[2])

\* the characters are an integer: an optional sign and digits, nothing else
IsInteger(s) ==
    LET d == IF At(s, 1) \in {"-", "+"} THEN 2 ELSE 1
    IN  d <= Len(s) /\ \A j \in d..Len(s) : s[j] \in Digits

\* what follows the operator prefix of a comparison, if it has one
AfterOperator(c) ==
    IF \E op \in {">=", "<=", "=="} : HasPrefix(c, OpChars(op)) THEN From(c, 3)
    ELSE IF \E op \in {">", "<", "="} : HasPrefix(c, OpChars(op)) THEN From(c, 2)
    ELSE c

\* a comparison is malformed: its operator prefix is not followed by an
\* integer, or it has no operator prefix and is not an integer
Malformed(c) == ~IsInteger(TrimSpace(AfterOperator(TrimSpace(c))))

\* C20: a length comparison string that is malformed makes the assertion
\* fail with a reason that describes the invalid comparison.
C20_MalformedFails ==
    Asserted /\ assertion.Type = "length" /\ assertion.Value.t = "string"
      /\ Malformed(assertion.Value.s) =>
        ~checked.Success /\ checked.Reason = "invalid length comparison"

\* C21: CheckAll returns one result per assertion, in the order of the
\* list, each the assertion's own Check on the same output, also after an
\* assertion that failed or was malformed; AllPassed is true iff every
\* result has Success = true, hence true for the empty list.
C21_CheckAll ==
    \A i \in 1..Len(calls) :
       /\ calls[i].method = "CheckAll" =>
            /\ Len(calls[i].ret) = Len(calls[i].args)
            /\ \A k \in 1..Len(calls[i].args) :
                  calls[i].ret[k] = Result(calls[i].args[k], input,
                                           Check(calls[i].args[k], input))
       /\ calls[i].method = "AllPassed" =>
            (calls[i].ret <=> \A k \in 1..Len(calls[i].args) :
                                 calls[i].args[k].Success)

\* a list whose first assertion is malformed and whose second succeeds, and
\* AllPassed of its results; AllPassed of the results of the empty list
C21_Witness ==
    /\ api = "CheckAll" /\ Len(calls) = 2
    /\ calls[1].method = "CheckAll" /\ calls[2].method = "AllPassed"
    /\ \/ /\ Len(calls[1].ret) = 2
          /\ calls[1].args[1] = [Type |-> "regex", Value |-> StrVal(<<"[">>)]
          /\ ~calls[1].ret[1].Success /\ calls[1].ret[2].Success
          /\ ~calls[2].ret
       \/ calls[1].args = <<>> /\ calls[2].args = <<>> /\ calls[2].ret

\* a call of an assertion method, not of AllPassed or GetFailures
IsAssertion(c) == c.method \notin {"AllPassed", "GetFailures", "CheckAll"}
\* an entry that failed
IsFailure(r) == ~r.Success

\* the assertion kind a method records
KindOf(method) ==
    CASE method = "Contains" -> "contains"
      [] method = "NotContains" -> "not-contains"
      [] method = "Equals" -> "equals"
      [] method = "StartsWith" -> "starts-with"
      [] method = "EndsWith" -> "ends-with"
      [] method = "MatchesRegex" -> "regex"
      [] method \in {"IsValidJSON", "MatchesJSONSchema"} -> "json"
      [] method = "Custom" -> "custom:c"
      [] OTHER -> "length"

C29_MethodsAgreeWithCheck ==
    api = "Assert" =>
      \A k \in 1..Len(Results) :
         Results[k].Assertion.Type # "custom:c" =>
           Check(Results[k].Assertion, Results[k].Actual).Success
             = Results[k].Success

\* a step of Process or Validate keeps the fields of the template
TemplateKept ==
    api \in {"Process", "Validate"} =>
       /\ Content' = Content /\ Variables' = Variables
       /\ BaseDir' = BaseDir /\ MaxDepth' = MaxDepth
       /\ fp'.BaseDir = fp.BaseDir /\ fp'.MaxDepth = fp.MaxDepth

\* C23: Template.Process and Template.Validate leave Content, Variables,
\* BaseDir and MaxDepth of the template unchanged, whether they succeed or
\* fail; a returned Process has changed nothing of the file processor but its
\* cache, and Validate has changed nothing of it.
C23_TemplateUnchanged ==
    /\ [][TemplateKept]_vars
    /\ [](api = "Process" /\ Done =>
            fp = [NewFileProcessor(BaseDir) EXCEPT
                     !.processedFiles = fp.processedFiles])
    /\ [](api = "Validate" => fp = NewFileProcessor(BaseDir))

\* a Process call that failed after it had cached an inclusion
C23_Witness ==
    /\ api = "Process" /\ Done /\ err # NoErr
    /\ DOMAIN fp.processedFiles # {}
    /\ Ran("vars")

\* C27: the depth counter of the file processor is 0 before and after
\* every top-level FileProcessor.Process call, whether it succeeds or fails;
\* during the call it is the number of inclusions being expanded and never
\* exceeds MaxDepth.
C27_DepthBalanced ==
    api = "Process" =>
      /\ pc # "files" => fp.currentDepth = 0
      /\ pc = "files" => fp.currentDepth = Len(stack) - 1
      /\ fp.currentDepth <= fp.MaxDepth

\* a call that failed at the depth limit has returned
C27_Witness ==
    /\ api = "Process" /\ Done /\ hist.depthHit /\ err # NoErr
    /\ fp.currentDepth = 0

\* C26: the inclusion cache holds, for a path, only the fully resolved
\* content of a file from a resolution that succeeded: no directive is left
\* in it, and no placeholder of a nested inclusion that failed; a path whose
\* inclusion failed has no entry.
C26_CacheResolved ==
    api = "Process" =>
      \A k \in DOMAIN fp.processedFiles :
         /\ ~FindDirective(1, fp.processedFiles[k]).found
         /\ ~FindDirective(2, fp.processedFiles[k]).found
         /\ ~HasTok(fp.processedFiles[k], ERRFILE)
         /\ k \in DOMAIN fs

\* C25: Process reports an inclusion error only when an inclusion failed
\* during the call, and a conditional error only when the evaluation of a
\* condition or of a nested block failed: no evaluation of a condition fails
\* (EvaluateExpression returns no error), and a nested block fails only in a
\* text that holds a block.
C25_ErrorsAreReal ==
    api = "Process" /\ Done =>
      /\ err.kind = "read" => hist.depthHit \/ hist.unreadable # {}
      /\ err.kind # "condition"
      /\ err.kind = "nested" => FindBlock(hist.condIn).found

\* Process failed because a variable or the file of an inclusion is missing
FailedForMissing ==
    \/ err.kind = "missing"
    \/ err.kind = "read" /\ hist.unreadable # {}

\* C24: on the same template, variables and files, Validate returns no
\* issue iff Process does not fail because of a missing variable or a
\* missing inclusion file.
C24_ValidateAgrees ==
    api = "Process" /\ Done =>
      (Validate(Content, Variables, BaseDir, fs) = <<>> <=> ~FailedForMissing)

\* the expression holds one operator, == or !=
OneOperator(e) == Cardinality({i \in 1..Len(e) : e[i] \in {EQ, NE}}) = 1
\* the expression with its operator replaced by op
WithOperator(e, op) == [i \in 1..Len(e) |-> IF e[i] \in {EQ, NE} THEN op ELSE e[i]]

\* C28: for every variable set and every left and right text without ==
\* and !=, the value of "left == right" is the negation of the value of
\* "left != right".
C28_Complementary ==
    Evaluated /\ OneOperator(exprArg) =>
      verdict.value =
         ~EvaluateExpression(
             WithOperator(exprArg, IF HasTok(exprArg, EQ) THEN NE ELSE EQ),
             Variables)

\* an inequality whose left variable is absent, and an equality with a
\* variable on the right
C28_Witness ==
    /\ Evaluated
    /\ \/ exprArg = <<"42", SP, NE, "x">> /\ verdict.value
       \/ exprArg = <<"s", EQ, QUOTE, "x">> /\ Variables = EvalVars1

-----------------------------------------------------------------------------
(* The provider registry of package llm: Registry, its factories and the
   goroutines that call it.  Every method holds r.mu for its whole body, so
   a critical section is one step; GetProvider has two of them, the lookup
   under the read lock and the creation under the write lock, and other
   goroutines run between the two. *)

\* number of goroutines that call GetProvider
MaxGoroutines == 2
\* number of calls of GetProvider
MaxGets == 3
\* number of factories registered
MaxFactories == 2

\* strings.ToLower, letter by letter
ToLower(s) ==
    [i \in DOMAIN s |->
        CASE s[i] = "O" -> "o"
          [] s[i] = "A" -> "a"
          [] s[i] = "I" -> "i"
          [] OTHER -> s[i]]

\* the provider names of the model
openai == <<"o", "a", "i">>
OpenAI == <<"O", "A", "I">>
anthropic == <<"a", "n">>
claude == <<"c", "l">>
nonexistent == <<"n", "o">>
Requested == {openai, OpenAI, anthropic, claude, nonexistent}

\* A provider: what Name() returns, and which object it is
Provider(name, id) == [name |-> name, id |-> id]
NoProvider == Provider(<<>>, 0)

\* the providers the callers construct themselves
openaiProvider == Provider(openai, 101)
anthropicProvider == Provider(anthropic, 102)
secondProvider == Provider(OpenAI, 103)
Registered == {openaiProvider, secondProvider}

\* ErrProviderNotFound, wrapped with the name
ErrProviderNotFound(name) == Err("provider not found", name)

\* The factories: OpenAIFactory builds a new provider on every call,
\* MockFactory hands out the providers of its map
OpenAIFactory == [type |-> "OpenAIFactory", providers |-> <<>>]
MockFactory(key, provider) ==
    [type |-> "MockFactory", providers |-> (key :> provider)]
Factories ==
    {OpenAIFactory, MockFactory(anthropic, anthropicProvider),
     MockFactory(claude, anthropicProvider)}

\* factory.SupportsProvider(providerStr)
SupportsProvider(factory, providerStr) ==
    IF factory.type = "OpenAIFactory"
    THEN ToLower(providerStr) = openai
    ELSE providerStr \in DOMAIN factory.providers

\* factory.Create(providerStr); id is the identity of a provider built new
Create(factory, providerStr, id) ==
    IF factory.type = "OpenAIFactory"
    THEN IF ToLower(providerStr) # openai
         THEN [provider |-> NoProvider, err |-> ErrProviderNotFound(providerStr)]
         ELSE [provider |-> Provider(openai, id), err |-> NoErr]
    ELSE IF providerStr \notin DOMAIN factory.providers
         THEN [provider |-> NoProvider, err |-> ErrProviderNotFound(<<>>)]
         ELSE [provider |-> factory.providers[providerStr], err |-> NoErr]

\* r.ListProviders(): the providers of the map, in no particular order
ListProviders(ps) == {ps[k] : k \in DOMAIN ps}

\* NewRegistry() and goroutines that have not called it yet
RegistryInit ==
    /\ api = "Registry"
    /\ providers = <<>> /\ factories = <<>>
    /\ goroutines = [g \in 1..MaxGoroutines |-> [pc |-> "idle", name |-> <<>>]]
    /\ creates = <<>> /\ returns = <<>>
    /\ pc = "start"
    /\ Content = <<>> /\ Variables = Vars1 /\ BaseDir = Base
    /\ MaxDepth = DefaultMaxDepth
    /\ fs = Files /\ writes = 0 /\ fp = NewFileProcessor(Base)
    /\ stack = <<>> /\ text = <<>> /\ err = NoErr /\ hist = NoHist
    /\ issues = <<>> /\ EvalIdle /\ AssertIdle

\* r.RegisterProvider(provider)
RegisterProvider ==
    /\ api = "Registry"
    /\ \E provider \in Registered :
         providers' = (ToLower(provider.name) :> provider) @@ providers
    /\ UNCHANGED <<factories, goroutines, creates, returns>>
    /\ UNCHANGED <<issues, evars, avars, Content, Variables, BaseDir, MaxDepth,
                   api, fs, writes, fp, stack, pc, text, err, hist>>

\* r.RegisterFactory(factory)
RegisterFactory ==
    /\ api = "Registry"
    /\ Len(factories) < MaxFactories
    /\ \E factory \in Factories : factories' = Append(factories, factory)
    /\ UNCHANGED <<providers, goroutines, creates, returns>>
    /\ UNCHANGED <<issues, evars, avars, Content, Variables, BaseDir, MaxDepth,
                   api, fs, writes, fp, stack, pc, text, err, hist>>

\* the return of a call of GetProvider by goroutine g; ps is r.providers
\* when it returns
Return(g, name, provider, e, ps) ==
    /\ returns' = Append(returns,
           [g |-> g, name |-> name, provider |-> provider, err |-> e,
            before |-> [providers |-> providers, factories |-> factories],
            after |-> [providers |-> ps, factories |-> factories]])
    /\ goroutines' = [goroutines EXCEPT ![g] = [pc |-> "idle", name |-> <<>>]]

\* r.GetProvider(s), first part: the lookup under the read lock
GetProviderLookup ==
    /\ api = "Registry"
    /\ Len(returns)
         + Cardinality({g \in DOMAIN goroutines : goroutines[g].pc = "create"})
         < MaxGets
    /\ \E g \in DOMAIN goroutines, s \in Requested :
         LET name == ToLower(s)
         IN  /\ goroutines[g].pc = "idle"
             /\ IF name \in DOMAIN providers
                THEN Return(g, name, providers[name], NoErr, providers)
                ELSE /\ goroutines' =
                          [goroutines EXCEPT ![g] = [pc |-> "create", name |-> name]]
                     /\ UNCHANGED returns
    /\ UNCHANGED <<providers, factories, creates>>
    /\ UNCHANGED <<issues, evars, avars, Content, Variables, BaseDir, MaxDepth,
                   api, fs, writes, fp, stack, pc, text, err, hist>>

\* the first factory of the list that supports the name, 0 when none does
FirstSupporting(list, name) ==
    IF \E i \in DOMAIN list : SupportsProvider(list[i], name)
    THEN CHOOSE i \in DOMAIN list :
           /\ SupportsProvider(list[i], name)
           /\ \A j \in 1..(i - 1) : ~SupportsProvider(list[j], name)
    ELSE 0

\* r.GetProvider(s), second part: under the write lock, look again, then
\* ask the factories
GetProviderCreate ==
    /\ api = "Registry"
    /\ \E g \in DOMAIN goroutines :
         LET name == goroutines[g].name
             i == FirstSupporting(factories, name)
             made == Create(factories[i], name, Len(creates) + 1)
         IN  /\ goroutines[g].pc = "create"
             /\ IF name \in DOMAIN providers
                THEN /\ Return(g, name, providers[name], NoErr, providers)
                     /\ UNCHANGED <<providers, creates>>
                ELSE IF i = 0
                THEN /\ Return(g, name, NoProvider, ErrProviderNotFound(name), providers)
                     /\ UNCHANGED <<providers, creates>>
                ELSE /\ creates' = Append(creates,
                            [name |-> name, factory |-> i,
                             provider |-> made.provider, err |-> made.err])
                     /\ IF made.err # NoErr
                        THEN /\ providers' = providers
                             /\ Return(g, name, NoProvider, made.err, providers)
                        ELSE /\ providers' =
                                  (ToLower(made.provider.name) :> made.provider)
                                     @@ providers
                             /\ Return(g, name, made.provider, NoErr, providers')
    /\ UNCHANGED factories
    /\ UNCHANGED <<issues, evars, avars, Content, Variables, BaseDir, MaxDepth,
                   api, fs, writes, fp, stack, pc, text, err, hist>>

RegistryNext ==
    \/ RegisterProvider
    \/ RegisterFactory
    \/ GetProviderLookup
    \/ GetProviderCreate

RegistrySpec == RegistryInit /\ [][RegistryNext]_vars

\* the name is neither registered nor supported by a factory of registry r
Unknown(r, name) ==
    /\ name \notin DOMAIN r.providers
    /\ \A i \in DOMAIN r.factories : ~SupportsProvider(r.factories[i], name)

\* Create ran at most once for each name
CreatedOnce ==
    \A i, j \in DOMAIN creates : creates[i].name = creates[j].name => i = j

\* every provider a factory created is one of ListProviders
CreatedListed ==
    \A i \in DOMAIN creates :
      creates[i].err = NoErr => creates[i].provider \in ListProviders(providers)

\* the callers that asked for one name received one provider
SameInstance ==
    \A i, j \in DOMAIN returns :
      /\ returns[i].name = returns[j].name
      /\ returns[i].err = NoErr /\ returns[j].err = NoErr
      => returns[i].provider = returns[j].provider

\* an unknown name gives ErrProviderNotFound and the registry stays as it was
UnknownNotFound ==
    \A i \in DOMAIN returns :
      Unknown(returns[i].before, returns[i].name) =>
        /\ returns[i].err.kind = "provider not found"
        /\ returns[i].after = returns[i].before

\* C30: over every interleaving of GetProvider calls for one name (in any
\* letter case) with RegisterProvider and RegisterFactory calls, a factory's
\* Create runs at most once for the name, the created provider is stored in the
\* registry, so that ListProviders includes it, and every caller receives the
\* same provider instance; a name neither registered nor supported by a
\* factory gives ErrProviderNotFound and leaves the registry unchanged.
C30_CreatedOnce ==
    api = "Registry" =>
      CreatedOnce /\ CreatedListed /\ SameInstance /\ UnknownNotFound

\* the provider of the name was never replaced and every factory names its
\* providers as they are asked for
Undisturbed ==
    /\ \A i \in DOMAIN factories : factories[i] # MockFactory(claude, anthropicProvider)
    /\ \A i \in DOMAIN returns :
         returns[i].err = NoErr =>
           providers[returns[i].name] = returns[i].provider

\* what holds of GetProvider as long as no RegisterProvider call replaces a
\* provider and the factories store their providers under the requested name
C30_Undisturbed ==
    api = "Registry" /\ Undisturbed =>
      CreatedOnce /\ CreatedListed /\ SameInstance /\ UnknownNotFound

=============================================================================
